---- MODULE Spec2Model ----
(***************************************************************************)
(* State-machine model of the etask scheduler (etask::system::task_manager)*)
(* and of the pieces it is built on: the lifecycle flag set                *)
(* (etask::system::state), the task registry with its per-type storage     *)
(* slots, and the result channel.                                          *)
(*                                                                         *)
(* One action per public operation of task_manager; update() is one action *)
(* that runs the whole per-record loop and the trailing compaction.        *)
(***************************************************************************)
EXTENDS Integers, Sequences, FiniteSets, TLC

VARIABLES
    tasks,      \* task_manager::_tasks : sequence of task_info records
    slots,      \* per-type storage slot of the registry: constructed flag, instance number
    finished,   \* what is_finished() of the instance living in each slot returns
    hooks,      \* per uid: the hooks called on the latest instance, in call order
    results,    \* per uid: channel.on_result deliveries made for the latest instance
    ticks,      \* number of update() calls so far
    last,       \* the last public call, its arguments and its returned status_code
    stl,        \* the standard library the build links: does remove_if copy its predicate
    rx,         \* what hub.try_receive returned to the last bridge update (an optional)
    ops,        \* the scheduler operations the last bridge update invoked
    sent,       \* the packets the last step handed to hub.send, in order
    fault,      \* "none", or how the process left defined behaviour
    lib         \* the library object a specification checks on its own (a packet header,
                \* a link, a hub, a registry), as the record of its fields named
                \* below; << >> where the scheduler runs without one

vars == <<tasks, slots, finished, hooks, results, ticks, last, stl, rx, ops, sent, fault, lib>>

\* the hub side of the bridge; the scheduler's own operations do not touch it
hubvars == <<rx, ops, sent, fault>>

\* a packet header under construction
args == lib.args                \* the arguments a packet_header constructor is called with
hdr == lib.hdr                  \* the packet_header that constructor built, once it has run

\* a link between a remote device and this one
checksum_policy == lib.checksum_policy \* the policy its framed_packet type is instantiated with
pkt == lib.pkt                  \* the framed packet the remote device builds, seals and sends
phase == lib.phase              \* "built", "sent" or "arrived": how far that packet has come
line == lib.line                \* the bytes of it still in flight
damage == lib.damage            \* 0, or the number of the bit that was flipped in flight
inbox == lib.inbox              \* the bytes waiting in this device's serial receive buffer
got == lib.got                  \* what the transport's try_receive returned to the last poll (an optional)

\* a hub over its transports
sender_statuses == lib.sender_statuses     \* hub::_sender_statuses : one bit per transport
receiver_statuses == lib.receiver_statuses \* hub::_receiver_statuses : one bit per transport
pending == lib.pending          \* per transport: the packet its try_receive will yield, if any (an optional)
hubop == lib.hubop              \* the last operation called on the hub, with its argument
made == lib.made                \* the calls that operation made on the transports, in order
returned == lib.returned        \* what the last hub.try_receive returned (an optional)

\* a registry and the slots of its types
declared == lib.declared        \* the keys of the types it is instantiated with, in declaration order
storage == lib.storage          \* per declared type, its slot<T>::instance()
regop == lib.regop              \* the last call on the registry or on one of its slots, with what it gave
assertions == lib.assertions    \* whether the build compiles assert() in (NDEBUG not defined)

\* a checksum computed over a buffer
sum_policy == lib.sum_policy    \* the policy compute<> is instantiated with
input == lib.input              \* the bytes handed to it
computed == lib.computed        \* what it returned, once it has run (an optional)

\* a status byte and its classification
status_byte == lib.status_byte  \* the status_code value handed to the classifiers
verdict == lib.verdict          \* what the three classifiers returned for it (an optional)

\* one etask::system::state object
flag_state == lib.flag_state    \* state::_state, as the set of the flags that are set
chain == lib.chain              \* the mutators called on it so far, in order

\* an update() in progress
cursor == lib.cursor            \* 0 outside update(); inside, the 1-based position of the next record
marked == lib.marked            \* task_manager::_garbage, as the set of 0-based bits that are set
inside == lib.inside            \* the hook or callback that ran last in this update()

\* the scheduler's own state
schedvars == <<tasks, slots, finished, hooks, results, ticks, last, stl>>

(***************************************************************************)
(* Bounds of the model.                                                    *)
(***************************************************************************)
MaxTicks == 3        \* update() is called at most this many times
MaxInst == 2         \* each task type is constructed at most this many times
MaxApiTicks == 1     \* update() calls explored when every call's return value is recorded
PayloadSize == 2     \* packet_t::payload_size, in bytes
MaxBridgeTicks == 2  \* update() calls explored when the bridge drives the scheduler
NumTransports == 3   \* the transports a hub is instantiated with
MaxDataLen == 9      \* the longest buffer a sum is computed over, in bytes

(***************************************************************************)
(* The task types handed to task_manager<Allocator, Tasks...>, by uid, in  *)
(* declaration order.  uid 1 overrides is_finished() to return false       *)
(* forever, uid 2 keeps the base default (true at once), uid 3 reports     *)
(* finished once its on_execute decided so (or, in CondSpec, once the      *)
(* condition its is_finished() polls is met).                              *)
(***************************************************************************)
TaskTypes == <<2, 3, 1>>

RegisteredUids == {TaskTypes[k] : k \in 1..Len(TaskTypes)}

\* uids a caller may pass: the registered ones and one the registry does not know
UidSpace == RegisteredUids \cup {4}

NullChannel == "null"
Channels == {"bridge", "internal"}
Initiators == {7, 9}

\* the (origin, initiator_id) pairs register_task is called with
Callers == {<<"bridge", 7>>, <<"internal", 9>>, <<NullChannel, 7>>}

(***************************************************************************)
(* etask::system::state : a set of flags.                                  *)
(***************************************************************************)
Flags == {"idle", "started", "finished", "paused", "resumed", "aborted", "running"}

\* state_flags _state = state_flags::running
DefaultState == {"running"}

is_started(s) == "started" \in s
is_paused(s)  == "paused" \in s
is_resumed(s) == "resumed" \in s
is_aborted(s) == "aborted" \in s
is_running(s) == "running" \in s
is_idle(s)    == "idle" \in s

set_paused(s)  == (s \cup {"paused"}) \ {"resumed"}
set_resumed(s) == (s \cup {"resumed"}) \ {"paused"}
set_started(s) == s \cup {"started"}
\* mutant of set_aborted: aborting also takes the running flag away
MutSetAbortedClearsRunning(s) == (s \cup {"aborted"}) \ {"running"}
set_aborted(s) == s \cup {"aborted"}
set_running(s) == (s \cup {"running"}) \ {"idle"}
set_idle(s)    == (s \cup {"idle"}) \ {"running"}

(***************************************************************************)
(* Registry: index table sorted by key at construction, looked up with     *)
(* lower_bound; each type has one storage slot.                            *)
(***************************************************************************)
RECURSIVE InsertSorted(_, _)
InsertSorted(sorted, e) ==
    IF sorted = << >> THEN <<e>>
    ELSE IF e.key < Head(sorted).key THEN <<e>> \o sorted
    ELSE <<Head(sorted)>> \o InsertSorted(Tail(sorted), e)

RECURSIVE SortByKey(_)
SortByKey(table) ==
    IF table = << >> THEN << >>
    ELSE InsertSorted(SortByKey(Tail(table)), Head(table))

\* make_index_table : one {key, index} entry per type, in declaration order
make_index_table(types) == [k \in 1..Len(types) |-> [key |-> types[k], index |-> k]]

\* registry::registry : the index table, sorted by key
registry(types) == SortByKey(make_index_table(types))

\* the index table of the scheduler's registry
IndexTable == registry(TaskTypes)

\* std::lower_bound: first position whose key is not less than `key`, Len+1 for end()
RECURSIVE LowerBound(_, _, _)
LowerBound(table, key, pos) ==
    IF pos > Len(table) THEN pos
    ELSE IF table[pos].key < key THEN LowerBound(table, key, pos + 1)
    ELSE pos

\* the lookup without `or it->key != key`
MutRouteWithoutKeyCheck(table, key) ==
    LET it == LowerBound(table, key, 1)
    IN  IF it > Len(table) THEN 0
        ELSE table[it].index

\* the lookup that opens registry::get, construct and destroy: the routing-table
\* index of `key`, 0 when `it == cend() or it->key != key`
route(table, key) ==
    LET it == LowerBound(table, key, 1)
    IN  IF it > Len(table) \/ table[it].key # key THEN 0
        ELSE table[it].index

\* the routing-table index of `key` in the scheduler's registry, 0 when it has none
RegistryFind(key) == route(IndexTable, key)

\* slot<T>::emplace : destroy the previous instance if any, construct a new one.
\* register_task reaches it through the registry (`_registry.emplace`,
\* task_manager.tpp:46).  Where the registry goes through slot<T>::construct
\* instead, its assert(not _constructed) stops a program built with assertions;
\* a stopped program takes no further step, so the steps below cover both builds.
SlotEmplace(slot) == [constructed |-> TRUE, inst |-> slot.inst + 1]

(***************************************************************************)
(* Task bodies (user code behind the hooks).                               *)
(***************************************************************************)
\* is_finished() of a freshly constructed instance
FinishedAtConstruction(uid) == uid = 2

\* is_finished() after on_execute ran; `decide` is the body's own decision
FinishedAfterExecute(uid, was, decide) == IF uid = 3 THEN was \/ decide ELSE was

\* the result envelope of each task type: uid 3 returns three bytes, the others one
EnvelopeOf(uid) == IF uid = 3 THEN <<3, 3, 3>> ELSE <<uid>>

\* on_complete(interrupted) returns {envelope, status}
OnCompleteResult(uid, interrupted) ==
    [envelope |-> EnvelopeOf(uid),
     status   |-> IF interrupted THEN "task_aborted" ELSE "task_finished"]

Hook(name, interrupted) == [h |-> name, interrupted |-> interrupted]

\* the task types whose is_finished() reads a condition outside the scheduler
PollsCondition == {3}

\* the condition a live task polls is met: its is_finished() returns true from now on
ConditionMet(uid) ==
    /\ \E k \in 1..Len(tasks) : tasks[k].uid = uid
    /\ ~finished[uid]
    /\ finished' = [finished EXCEPT ![uid] = TRUE]
    /\ UNCHANGED <<tasks, slots, hooks, results, ticks, stl>>

(***************************************************************************)
(* task_manager                                                            *)
(***************************************************************************)
\* task_manager::find : position of the first record with this uid, 0 for end()
RECURSIVE FindFrom(_, _, _)
FindFrom(ts, uid, pos) ==
    IF pos > Len(ts) THEN 0
    ELSE IF ts[pos].uid = uid THEN pos
    ELSE FindFrom(ts, uid, pos + 1)

\* mutant of find: the search starts at the second record
MutFindSkipsFirst(uid) == FindFrom(tasks, uid, 2)

find(uid) == FindFrom(tasks, uid, 1)

Call(op, uid, origin, initiator_id, ret) ==
    [op |-> op, uid |-> uid, origin |-> origin, initiator_id |-> initiator_id, ret |-> ret]

\* mutant of RegisterStatus: the duplicate check is missing
MutRegisterStatusNoDuplicateCheck(origin, uid) ==
    IF origin = NullChannel THEN "channel_null"
    ELSE IF RegistryFind(uid) = 0 THEN "task_unknown"
    ELSE "ok"

\* status register_task returns
RegisterStatus(origin, uid) ==
    IF origin = NullChannel THEN "channel_null"
    ELSE IF find(uid) # 0 THEN "duplicate_task"
    ELSE IF RegistryFind(uid) = 0 THEN "task_unknown"
    ELSE "ok"

\* the record register_task appends: task_info{task, state{}, initiator_id, uid, origin}
NewRecord(origin, initiator_id, uid, inst) ==
    [uid |-> uid, state |-> DefaultState, initiator_id |-> initiator_id,
     channel |-> origin, inst |-> inst]

RegisterTask(origin, initiator_id, uid) ==
    LET ret == RegisterStatus(origin, uid)
    IN  /\ IF ret = "ok"
           THEN /\ slots[uid].inst < MaxInst
                /\ slots' = [slots EXCEPT ![uid] = SlotEmplace(slots[uid])]
                /\ finished' = [finished EXCEPT ![uid] = FinishedAtConstruction(uid)]
                /\ hooks' = [hooks EXCEPT ![uid] = << >>]
                /\ results' = [results EXCEPT ![uid] = << >>]
                /\ tasks' = Append(tasks,
                                   NewRecord(origin, initiator_id, uid, slots[uid].inst + 1))
           ELSE UNCHANGED <<tasks, slots, finished, hooks, results>>
        /\ UNCHANGED <<ticks, stl>>

\* mutant of PauseStatus: the started check is missing
MutPauseStatusNoStartedCheck(uid) ==
    LET it == find(uid)
    IN  IF it = 0 THEN "task_not_registered"
        ELSE IF finished[uid] THEN "task_already_finished"
        ELSE IF is_aborted(tasks[it].state) THEN "task_already_aborted"
        ELSE IF is_paused(tasks[it].state) THEN "task_already_paused"
        ELSE "ok"

\* status pause_task returns
PauseStatus(uid) ==
    LET it == find(uid)
    IN  IF it = 0 THEN "task_not_registered"
        ELSE IF finished[uid] THEN "task_already_finished"
        ELSE IF is_aborted(tasks[it].state) THEN "task_already_aborted"
        ELSE IF is_paused(tasks[it].state) THEN "task_already_paused"
        ELSE IF ~is_started(tasks[it].state) THEN "task_not_running"
        ELSE "ok"

\* mutant of PauseTask: the paused flag is set even when the call is refused
MutPauseTaskMarksWhenRefused(uid) ==
    LET it == find(uid)
    IN  /\ tasks' = IF it # 0
                    THEN [tasks EXCEPT ![it].state = set_paused(tasks[it].state)]
                    ELSE tasks
        /\ UNCHANGED <<slots, finished, hooks, results, ticks, stl>>

PauseTask(uid) ==
    LET ret == PauseStatus(uid)
        it == find(uid)
    IN  /\ tasks' = IF ret = "ok"
                    THEN [tasks EXCEPT ![it].state = set_paused(tasks[it].state)]
                    ELSE tasks
        /\ UNCHANGED <<slots, finished, hooks, results, ticks, stl>>

\* mutant of ResumeStatus: the running check is missing
MutResumeStatusNoRunningCheck(uid) ==
    LET it == find(uid)
    IN  IF it = 0 THEN "task_not_registered"
        ELSE IF finished[uid] THEN "task_already_finished"
        ELSE IF is_aborted(tasks[it].state) THEN "task_already_aborted"
        ELSE IF is_resumed(tasks[it].state) THEN "task_already_resumed"
        ELSE "ok"

\* mutant of ResumeTask: the record is marked resumed whatever its flags are
MutResumeTaskIgnoresFlags(uid) ==
    LET it == find(uid)
    IN  /\ tasks' = IF it # 0 /\ ~finished[uid] /\ ~is_aborted(tasks[it].state)
                    THEN [tasks EXCEPT ![it].state = set_resumed(tasks[it].state)]
                    ELSE tasks
        /\ UNCHANGED <<slots, finished, hooks, results, ticks, stl>>

\* status resume_task returns
ResumeStatus(uid) ==
    LET it == find(uid)
    IN  IF it = 0 THEN "task_not_registered"
        ELSE IF finished[uid] THEN "task_already_finished"
        ELSE IF is_aborted(tasks[it].state) THEN "task_already_aborted"
        ELSE IF is_running(tasks[it].state) THEN "task_already_running"
        ELSE IF is_resumed(tasks[it].state) THEN "task_already_resumed"
        ELSE "ok"

ResumeTask(uid) ==
    LET ret == ResumeStatus(uid)
        it == find(uid)
    IN  /\ tasks' = IF ret = "ok"
                    THEN [tasks EXCEPT ![it].state = set_resumed(tasks[it].state)]
                    ELSE tasks
        /\ UNCHANGED <<slots, finished, hooks, results, ticks, stl>>

\* mutant of AbortStatus: the already-aborted check is missing
MutAbortStatusNoAbortedCheck(uid) ==
    LET it == find(uid)
    IN  IF it = 0 THEN "task_not_registered"
        ELSE IF finished[uid] THEN "task_already_finished"
        ELSE "ok"

\* status abort_task returns
AbortStatus(uid) ==
    LET it == find(uid)
    IN  IF it = 0 THEN "task_not_registered"
        ELSE IF finished[uid] THEN "task_already_finished"
        ELSE IF is_aborted(tasks[it].state) THEN "task_already_aborted"
        ELSE "ok"

AbortTask(uid) ==
    LET ret == AbortStatus(uid)
        it == find(uid)
    IN  /\ tasks' = IF ret = "ok"
                    THEN [tasks EXCEPT ![it].state = set_aborted(tasks[it].state)]
                    ELSE tasks
        /\ UNCHANGED <<slots, finished, hooks, results, ticks, stl>>

(***************************************************************************)
(* update(): the per-record loop.  A tick context carries what the loop    *)
(* reads and writes: the records, the hook log, the deliveries, the task   *)
(* bodies' finished state and the _garbage bitset (as the set of 0-based   *)
(* bit positions that are set).                                            *)
(***************************************************************************)
\* Option 0: a just-registered, idle record is started before anything else
StartIfNew(s) == IF is_idle(s) /\ ~is_started(s) THEN set_started(set_running(s)) ELSE s

\* Options 1 and 2: on_complete, on_result, _garbage.set(i)
Terminate(ctx, i, s, interrupted) ==
    LET r == ctx.tasks[i]
        out == OnCompleteResult(r.uid, interrupted)
    IN  [ctx EXCEPT
            !.tasks[i].state = s,
            !.hooks[r.uid] = Append(@, Hook("on_complete", interrupted)),
            !.results[r.uid] = Append(@, [channel |-> r.channel,
                                          initiator_id |-> r.initiator_id,
                                          uid |-> r.uid,
                                          envelope |-> out.envelope,
                                          status |-> out.status]),
            !.garbage = @ \cup {i - 1}]

\* the body of the for loop for the record at position i (1-based)
VisitRecord(ctx0, i, decide) ==
    LET r == ctx0.tasks[i]
        u == r.uid
        new == is_idle(r.state) /\ ~is_started(r.state)
        s == StartIfNew(r.state)
        ctx == IF new
               THEN [ctx0 EXCEPT !.hooks[u] = Append(@, Hook("on_start", FALSE))]
               ELSE ctx0
    IN  IF is_aborted(s) THEN Terminate(ctx, i, s, TRUE)
        ELSE IF ctx.finished[u] THEN Terminate(ctx, i, s, FALSE)
        ELSE IF is_paused(s) /\ is_running(s)
        THEN [ctx EXCEPT !.tasks[i].state = set_idle(s),
                         !.hooks[u] = Append(@, Hook("on_pause", FALSE))]
        ELSE IF is_resumed(s) /\ is_idle(s)
        THEN [ctx EXCEPT !.tasks[i].state = set_running(s),
                         !.hooks[u] = Append(@, Hook("on_resume", FALSE))]
        ELSE [ctx EXCEPT !.tasks[i].state = s,
                         !.hooks[u] = Append(@, Hook("on_execute", FALSE)),
                         !.finished[u] = FinishedAfterExecute(u, @, decide)]

RECURSIVE Loop(_, _, _)
Loop(ctx, i, decide) ==
    IF i > Len(ctx.tasks) THEN ctx
    ELSE Loop(VisitRecord(ctx, i, decide), i + 1, decide)

(***************************************************************************)
(* The compaction: _tasks.erase(std::remove_if(..., pred), end) with       *)
(* pred = [index = 0](auto&&) mutable { return _garbage.test(index++); }.  *)
(* The standard lets remove_if copy its predicate.  A library that passes  *)
(* it on by reference tests record j against bit j.  libstdc++ hands a     *)
(* copy to find_if for the first removed element and goes on with the      *)
(* original, whose index is still 0: the records after the first removed   *)
(* one, at position k, are tested against bits 0, 1, ...                   *)
(***************************************************************************)
RECURSIVE KeepFrom(_, _, _, _)
\* the records of ts from position j on, record j tested against bit j - shift - 1
KeepFrom(ts, garbage, j, shift) ==
    IF j > Len(ts) THEN << >>
    ELSE IF (j - shift - 1) \in garbage THEN KeepFrom(ts, garbage, j + 1, shift)
    ELSE <<ts[j]>> \o KeepFrom(ts, garbage, j + 1, shift)

RECURSIVE FirstGarbage(_, _, _)
FirstGarbage(ts, garbage, j) ==
    IF j > Len(ts) THEN 0
    ELSE IF (j - 1) \in garbage THEN j
    ELSE FirstGarbage(ts, garbage, j + 1)

RemoveIf(ts, garbage, copies) ==
    IF ~copies THEN KeepFrom(ts, garbage, 1, 0)
    ELSE LET k == FirstGarbage(ts, garbage, 1)
         IN  IF k = 0 THEN ts
             ELSE SubSeq(ts, 1, k - 1) \o KeepFrom(ts, garbage, k + 1, k)

Update ==
    /\ ticks < MaxTicks
    /\ \E decide \in BOOLEAN :
         LET ctx0 == [tasks |-> tasks, hooks |-> hooks, results |-> results,
                      finished |-> finished, garbage |-> {}]
             ctx == Loop(ctx0, 1, decide)
         IN  /\ tasks' = RemoveIf(ctx.tasks, ctx.garbage, stl = "copying")
             /\ hooks' = ctx.hooks
             /\ results' = ctx.results
             /\ finished' = ctx.finished
    /\ ticks' = ticks + 1
    /\ UNCHANGED <<slots, stl>>

\* no library object beside the scheduler
LibIdle == lib = << >>

\* the scheduler and the bridge right after construction
Quiescent ==
    /\ tasks = << >>
    /\ slots = [u \in RegisteredUids |-> [constructed |-> FALSE, inst |-> 0]]
    /\ finished = [u \in RegisteredUids |-> FALSE]
    /\ hooks = [u \in RegisteredUids |-> << >>]
    /\ results = [u \in RegisteredUids |-> << >>]
    /\ ticks = 0
    /\ last = Call("none", 0, NullChannel, 0, "ok")
    /\ rx = << >>
    /\ ops = << >>
    /\ sent = << >>
    /\ fault = "none"

Init ==
    /\ Quiescent
    /\ stl \in {"by_reference", "copying"}
    /\ LibIdle

(***************************************************************************)
(* Spec: the scheduler driven by any sequence of public calls; what the    *)
(* calls return is not kept in the state.                                  *)
(***************************************************************************)
Next ==
    \/ \E caller \in Callers, uid \in UidSpace :
            RegisterTask(caller[1], caller[2], uid)
            /\ UNCHANGED <<last, rx, ops, sent, fault, lib>>
    \/ \E uid \in UidSpace : PauseTask(uid) /\ UNCHANGED <<last, rx, ops, sent, fault, lib>>
    \/ \E uid \in UidSpace : ResumeTask(uid) /\ UNCHANGED <<last, rx, ops, sent, fault, lib>>
    \/ \E uid \in UidSpace : AbortTask(uid) /\ UNCHANGED <<last, rx, ops, sent, fault, lib>>
    \/ Update /\ UNCHANGED <<last, rx, ops, sent, fault, lib>>

Spec == Init /\ [][Next]_vars

\* LiveSpec: an application that makes any public calls and calls update()
\* again and again, until it has called update() MaxApiTicks times
MainLoopNext == ticks < MaxApiTicks /\ Next

LiveSpec ==
    /\ Init
    /\ [][MainLoopNext]_vars
    /\ WF_vars(ticks < MaxApiTicks /\ Update /\ UNCHANGED <<last, rx, ops, sent, fault, lib>>)

(***************************************************************************)
(* ApiSpec: the same operations seen from the caller, each call leaving    *)
(* its arguments and the status_code it returned in `last`.                *)
(***************************************************************************)
CallRegisterTask(origin, initiator_id, uid) ==
    /\ RegisterTask(origin, initiator_id, uid)
    /\ last' = Call("register_task", uid, origin, initiator_id, RegisterStatus(origin, uid))
    /\ UNCHANGED <<hubvars, lib>>

CallPauseTask(uid) ==
    /\ PauseTask(uid)
    /\ last' = Call("pause_task", uid, NullChannel, 0, PauseStatus(uid))
    /\ UNCHANGED <<hubvars, lib>>

CallResumeTask(uid) ==
    /\ ResumeTask(uid)
    /\ last' = Call("resume_task", uid, NullChannel, 0, ResumeStatus(uid))
    /\ UNCHANGED <<hubvars, lib>>

CallAbortTask(uid) ==
    /\ AbortTask(uid)
    /\ last' = Call("abort_task", uid, NullChannel, 0, AbortStatus(uid))
    /\ UNCHANGED <<hubvars, lib>>

CallUpdate ==
    /\ ticks < MaxApiTicks
    /\ Update
    /\ last' = Call("update", 0, NullChannel, 0, "ok")
    /\ UNCHANGED <<hubvars, lib>>

ApiNext ==
    \/ \E caller \in Callers, uid \in UidSpace : CallRegisterTask(caller[1], caller[2], uid)
    \/ \E uid \in UidSpace : CallPauseTask(uid)
    \/ \E uid \in UidSpace : CallResumeTask(uid)
    \/ \E uid \in UidSpace : CallAbortTask(uid)
    \/ CallUpdate

ApiSpec == Init /\ [][ApiNext]_vars

(***************************************************************************)
(* CondSpec: ApiSpec with task types whose is_finished() reads a condition *)
(* that changes between two public calls.                                  *)
(***************************************************************************)
\* no public call is made in this step
Environment(uid) ==
    /\ ConditionMet(uid)
    /\ last' = Call("none", 0, NullChannel, 0, "ok")
    /\ UNCHANGED <<hubvars, lib>>

CondNext ==
    \/ ApiNext
    \/ \E uid \in PollsCondition : Environment(uid)

CondSpec == Init /\ [][CondNext]_vars

(***************************************************************************)
(* The wire format: packet_header keeps its flags in three bits of a       *)
(* 16-bit word; a packet is header, status, task id and a fixed payload.   *)
(***************************************************************************)
\* enum class header_flags : uint8_t
header_flags ==
    [none |-> 0, ack |-> 1, error |-> 2, heartbeat |-> 4,
     abort |-> 8, pause |-> 16, resume |-> 32, reserved_a |-> 64, reserved_b |-> 128]

\* ETASK_BOARD_ID of this device
BoardId == 0

\* packet_header(type, encrypted = false, fragmented = false, priority = 0, flags,
\* validated, reserved = 0, receiver_id), built on the device whose id is `board`:
\* the flags go into the word as static_cast<uint8_t>(flags) & 0x7
packet_header(type, flags, validated, receiver_id, board) ==
    [type |-> type, flags |-> flags % 8, validated |-> validated,
     sender_id |-> board, receiver_id |-> receiver_id]

\* basic_packet(header, task_id, status_code, payload, payload_size): the payload field
\* is zero-initialised, then the bytes given are copied to its start
basic_packet(header, task_id, status_code, data) ==
    [header |-> header, task_id |-> task_id, status |-> status_code,
     payload |-> [k \in 1..PayloadSize |-> IF k <= Len(data) THEN data[k] ELSE 0]]

(***************************************************************************)
(* external_channel: the bridge between the hub and the scheduler.         *)
(***************************************************************************)
\* the flags remote senders build their command headers with
CommandFlags == {"none", "ack", "error", "heartbeat", "abort", "pause", "resume"}

\* the payload bytes of a command
CommandPayload == <<5, 6>>

\* the (sender id, task id) pairs of the commands: device 7 commands every task,
\* device 9 the single-shot one
Commanders == {<<7, uid>> : uid \in UidSpace} \cup {<<9, 2>>}

\* what hub.try_receive can return: a packet the device c[1] built for this board with
\* flags `built_with`, about the task c[2]
Received ==
    { [built_with |-> f,
       packet |-> basic_packet(packet_header("data", header_flags[f], FALSE, BoardId, c[1]),
                               c[2], "ok", CommandPayload)] :
        f \in CommandFlags, c \in Commanders }

\* the branch external_channel::update takes for a packet
Dispatch(packet) ==
    LET flags == packet.header.flags
    IN  IF flags = header_flags.none THEN "register_task"
        ELSE IF flags = header_flags.abort THEN "abort_task"
        ELSE IF flags = header_flags.pause THEN "pause_task"
        ELSE IF flags = header_flags.resume THEN "resume_task"
        ELSE "nothing"

\* a scheduler operation as the bridge invokes it
BridgeCall(op, uid, origin, initiator_id, params, ret) ==
    [call |-> Call(op, uid, origin, initiator_id, ret), params |-> params]

\* `code` is declared without an initializer and read when no branch assigned it:
\* the values a build can find there
Indeterminate == {"ok", "task_not_registered", "internal_error"}

\* mutant of ErrorReply: the reply is addressed with the constructor's default receiver_id
MutErrorReplyDefaultReceiver(iid, uid, code) ==
    IF code # "ok"
    THEN <<basic_packet(packet_header("data", header_flags.error, FALSE, 1, BoardId),
                        uid, code, << >>)>>
    ELSE << >>

\* the packets the tail of external_channel::update hands to the hub
ErrorReply(iid, uid, code) ==
    IF code # "ok"
    THEN <<basic_packet(packet_header("data", header_flags.error, FALSE, iid, BoardId),
                        uid, code, << >>)>>
    ELSE << >>

\* external_channel::update, from the point where hub.try_receive has returned r
BridgeReceive(r) ==
    /\ rx' = r
    /\ IF r = << >>
       THEN /\ ops' = << >>
            /\ sent' = << >>
            /\ UNCHANGED <<tasks, slots, finished, hooks, results, ticks, stl>>
       ELSE LET packet == r[1].packet
                iid == packet.header.sender_id
                uid == packet.task_id
                op == Dispatch(packet)
            IN  CASE op = "register_task" ->
                       /\ RegisterTask("bridge", iid, uid)
                       /\ ops' = <<BridgeCall(op, uid, "bridge", iid, packet.payload,
                                              RegisterStatus("bridge", uid))>>
                       /\ sent' = ErrorReply(iid, uid, RegisterStatus("bridge", uid))
                  [] op = "abort_task" ->
                       /\ AbortTask(uid)
                       /\ ops' = <<BridgeCall(op, uid, NullChannel, 0, << >>,
                                              AbortStatus(uid))>>
                       /\ sent' = ErrorReply(iid, uid, AbortStatus(uid))
                  [] op = "pause_task" ->
                       /\ PauseTask(uid)
                       /\ ops' = <<BridgeCall(op, uid, NullChannel, 0, << >>,
                                              PauseStatus(uid))>>
                       /\ sent' = ErrorReply(iid, uid, PauseStatus(uid))
                  [] op = "resume_task" ->
                       /\ ResumeTask(uid)
                       /\ ops' = <<BridgeCall(op, uid, NullChannel, 0, << >>,
                                              ResumeStatus(uid))>>
                       /\ sent' = ErrorReply(iid, uid, ResumeStatus(uid))
                  [] op = "nothing" ->
                       /\ \E code \in Indeterminate : sent' = ErrorReply(iid, uid, code)
                       /\ ops' = << >>
                       /\ UNCHANGED <<tasks, slots, finished, hooks, results, ticks, stl>>

\* external_channel::update
BridgeUpdate ==
    /\ fault = "none"
    /\ \E r \in {<< >>} \cup {<<c>> : c \in Received} : BridgeReceive(r)
    /\ UNCHANGED <<last, fault, lib>>

\* external_channel::on_result(initiator_id, uid, result, code): the packet it builds
ResultPacket(d) ==
    basic_packet(packet_header("data", header_flags.none, FALSE, d.initiator_id, BoardId),
                 d.uid, d.status, d.envelope)

\* the state update()'s loop starts from
TickCtx ==
    [tasks |-> tasks, hooks |-> hooks, results |-> results,
     finished |-> finished, garbage |-> {}]

\* the on_result call update() makes on the bridge for the record at position i,
\* << >> if it makes none
ResultCall(i) ==
    LET ctx == VisitRecord(TickCtx, i, FALSE)
        u == tasks[i].uid
    IN  IF ctx.garbage # {} /\ tasks[i].channel = "bridge"
        THEN <<ctx.results[u][Len(ctx.results[u])]>>
        ELSE << >>

\* the packets the result calls for the records i..n hand to the hub
RECURSIVE Packets(_, _)
Packets(i, n) ==
    IF i > n THEN << >>
    ELSE (IF ResultCall(i) # << >> THEN <<ResultPacket(ResultCall(i)[1])>> ELSE << >>)
         \o Packets(i + 1, n)

\* the first record whose result is larger than the payload field, 0 if there is none
RECURSIVE FirstOversized(_)
FirstOversized(i) ==
    IF i > Len(tasks) THEN 0
    ELSE IF ResultCall(i) # << >> /\ Len(ResultCall(i)[1].envelope) > PayloadSize THEN i
    ELSE FirstOversized(i + 1)

\* update()'s loop over the records i..n
RECURSIVE LoopTo(_, _, _, _)
LoopTo(ctx, i, n, decide) ==
    IF i > n THEN ctx
    ELSE LoopTo(VisitRecord(ctx, i, decide), i + 1, n, decide)

(***************************************************************************)
(* task_manager::update() with the bridge as the records' channel.  The    *)
(* packet constructor asserts payload_size_param <= payload_size and then  *)
(* memcpy's payload_size_param bytes: for a larger result a build with     *)
(* assertions aborts inside on_result, a build without them writes past    *)
(* the payload field and hands the packet on.  Either way the model stops  *)
(* at that record.                                                         *)
(***************************************************************************)
BridgeTick ==
    /\ fault = "none"
    /\ ticks < MaxBridgeTicks
    /\ LET k == FirstOversized(1)
       IN  IF k = 0
           THEN /\ Update
                /\ sent' = Packets(1, Len(tasks))
                /\ fault' = fault
           ELSE /\ ticks < MaxTicks
                /\ \E decide \in BOOLEAN, outcome \in {"assert", "overrun"} :
                     LET ctx == LoopTo(TickCtx, 1, k, decide)
                     IN  /\ tasks' = ctx.tasks
                         /\ hooks' = ctx.hooks
                         /\ results' = ctx.results
                         /\ finished' = ctx.finished
                         /\ sent' = Packets(1, k - 1) \o
                                    (IF outcome = "overrun"
                                     THEN <<ResultPacket(ResultCall(k)[1])>>
                                     ELSE << >>)
                         /\ fault' = outcome
                /\ ticks' = ticks + 1
                /\ UNCHANGED <<slots, stl>>
    /\ rx' = << >>
    /\ ops' = << >>
    /\ UNCHANGED <<last, lib>>

(***************************************************************************)
(* BridgeSpec: the device's main loop, which polls the bridge and ticks    *)
(* the scheduler.                                                          *)
(***************************************************************************)
BridgeNext ==
    \/ BridgeUpdate
    \/ BridgeTick

BridgeSpec == Init /\ [][BridgeNext]_vars

(***************************************************************************)
(* Bit arithmetic on unsigned integers, as the C++ operators &, |, ^, <<   *)
(* and >> compute it on non-negative operands.                             *)
(***************************************************************************)
RECURSIVE And(_, _), Or(_, _), Xor(_, _)
And(a, b) ==
    IF a = 0 \/ b = 0 THEN 0
    ELSE ((a % 2) * (b % 2)) + 2 * And(a \div 2, b \div 2)

Or(a, b) ==
    IF a = 0 THEN b
    ELSE IF b = 0 THEN a
    ELSE (IF a % 2 = 1 \/ b % 2 = 1 THEN 1 ELSE 0) + 2 * Or(a \div 2, b \div 2)

Xor(a, b) ==
    IF a = 0 THEN b
    ELSE IF b = 0 THEN a
    ELSE ((a + b) % 2) + 2 * Xor(a \div 2, b \div 2)

Shl(a, k) == a * 2^k
Shr(a, k) == a \div 2^k
\* static_cast<uintN_t>(a) and static_cast<uintN_t>(~a)
Cast(a, width) == a % 2^width
Not(a, width) == 2^width - 1 - Cast(a, width)
Bit(b) == IF b THEN 1 ELSE 0

(***************************************************************************)
(* packet_header, bit by bit: the 16-bit _space word, the sender_id byte   *)
(* and the receiver_id byte.                                               *)
(***************************************************************************)
ProtocolVersion == 0    \* ETASK_PROTOCOL_VERSION
SpaceBits == 16         \* std::uint16_t _space

\* packet_header(uint16_t raw_value, uint8_t receiver_id)
packet_header_raw(raw_value, receiver_id) ==
    [space |-> Cast(Or(And(raw_value, Not(Shl(3, 11), SpaceBits)),
                       Shl(And(ProtocolVersion, 3), 11)), SpaceBits),
     sender_id |-> BoardId,
     receiver_id |-> receiver_id]

\* packet_header(type, encrypted, fragmented, priority, flags, validated,
\*               reserved, receiver_id)
packet_header_fields(a) ==
    [space |-> Cast(Or(Shl(And(a.type, 15), 12),
                    Or(Shl(And(ProtocolVersion, 3), 10),
                    Or(Shl(And(Bit(a.encrypted), 1), 9),
                    Or(Shl(And(Bit(a.fragmented), 1), 8),
                    Or(Shl(And(a.priority, 7), 5),
                    Or(Shl(And(a.flags, 7), 2),
                    Or(Shl(And(Bit(a.validated), 1), 1),
                       And(Bit(a.reserved), 1)))))))), SpaceBits),
     sender_id |-> BoardId,
     receiver_id |-> a.receiver_id]

\* the accessors
type_of(h) == And(Shr(h.space, 12), 15)
version(h) == And(Shr(h.space, 10), 3)
encrypted(h) == And(h.space, 512) # 0
fragmented(h) == And(h.space, 256) # 0
priority(h) == And(Shr(h.space, 5), 7)
flags_of(h) == And(Shr(h.space, 2), 7)
validated_of(h) == And(h.space, 2) # 0
reserved(h) == And(h.space, 1) # 0
sender_id(h) == h.sender_id

\* what the accessors read back, as a field tuple
ReadBack(h) ==
    [type |-> type_of(h), encrypted |-> encrypted(h), fragmented |-> fragmented(h),
     priority |-> priority(h), flags |-> flags_of(h), validated |-> validated_of(h),
     reserved |-> reserved(h), receiver_id |-> h.receiver_id]

\* the values of header_type, of header_flags and of a uint8_t receiver id
\* the constructors are tried with
HeaderTypes == 0..15
HeaderFlagValues == {header_flags[f] : f \in DOMAIN header_flags}
ReceiverIds == {0, 255}
Priorities == 0..8

RawArgs == [ctor : {"raw"}, raw_value : 0..(2^SpaceBits - 1), receiver_id : ReceiverIds]
FieldArgs ==
    [ctor : {"fields"}, type : HeaderTypes, encrypted : BOOLEAN, fragmented : BOOLEAN,
     priority : Priorities, flags : HeaderFlagValues, validated : BOOLEAN,
     reserved : BOOLEAN, receiver_id : ReceiverIds]

ConstructFromRaw ==
    /\ args.ctor = "raw"
    /\ hdr = << >>
    /\ lib' = [lib EXCEPT !.hdr = <<packet_header_raw(args.raw_value, args.receiver_id)>>]
    /\ UNCHANGED <<schedvars, hubvars>>

ConstructFromFields ==
    /\ args.ctor = "fields"
    /\ hdr = << >>
    /\ lib' = [lib EXCEPT !.hdr = <<packet_header_fields(args)>>]
    /\ UNCHANGED <<schedvars, hubvars>>

HeaderInit ==
    /\ Quiescent
    /\ stl = "copying"
    /\ lib \in [args : RawArgs \cup FieldArgs, hdr : {<< >>}]

HeaderNext ==
    \/ ConstructFromRaw
    \/ ConstructFromFields

\* HeaderSpec: each packet_header constructor run once on every argument list
HeaderSpec == HeaderInit /\ [][HeaderNext]_vars

(***************************************************************************)
(* Checksums.  A checksum value is written as its bytes, most significant  *)
(* first, so that every width up to 64 bits is computed at its own width.   *)
(***************************************************************************)
WordSize == 4           \* sizeof(std::size_t) of the target

Zero(n) == [k \in 1..n |-> 0]
\* the value v as an n-byte unsigned integer
Word(v, n) == [k \in 1..n |-> (v \div 2^(8 * (n - k))) % 256]
Reverse(s) == [k \in 1..Len(s) |-> s[Len(s) + 1 - k]]
Prefix(s, n) == SubSeq(s, 1, n)
\* the integer whose little-endian bytes are s[from .. from + n - 1]
LittleEndian(s, from, n) ==
    LET RECURSIVE Value(_)
        Value(k) == IF k = n THEN 0 ELSE s[from + k] * 2^(8 * k) + Value(k + 1)
    IN  Value(0)

crc8_table ==
    << <<0>>, <<7>>, <<14>>, <<9>>, <<28>>, <<27>>, <<18>>, <<21>>,
       <<56>>, <<63>>, <<54>>, <<49>>, <<36>>, <<35>>, <<42>>, <<45>>,
       <<112>>, <<119>>, <<126>>, <<121>>, <<108>>, <<107>>, <<98>>, <<101>>,
       <<72>>, <<79>>, <<70>>, <<65>>, <<84>>, <<83>>, <<90>>, <<93>>,
       <<224>>, <<231>>, <<238>>, <<233>>, <<252>>, <<251>>, <<242>>, <<245>>,
       <<216>>, <<223>>, <<214>>, <<209>>, <<196>>, <<195>>, <<202>>, <<205>>,
       <<144>>, <<151>>, <<158>>, <<153>>, <<140>>, <<139>>, <<130>>, <<133>>,
       <<168>>, <<175>>, <<166>>, <<161>>, <<180>>, <<179>>, <<186>>, <<189>>,
       <<199>>, <<192>>, <<201>>, <<206>>, <<219>>, <<220>>, <<213>>, <<210>>,
       <<255>>, <<248>>, <<241>>, <<246>>, <<227>>, <<228>>, <<237>>, <<234>>,
       <<183>>, <<176>>, <<185>>, <<190>>, <<171>>, <<172>>, <<165>>, <<162>>,
       <<143>>, <<136>>, <<129>>, <<134>>, <<147>>, <<148>>, <<157>>, <<154>>,
       <<39>>, <<32>>, <<41>>, <<46>>, <<59>>, <<60>>, <<53>>, <<50>>,
       <<31>>, <<24>>, <<17>>, <<22>>, <<3>>, <<4>>, <<13>>, <<10>>,
       <<87>>, <<80>>, <<89>>, <<94>>, <<75>>, <<76>>, <<69>>, <<66>>,
       <<111>>, <<104>>, <<97>>, <<102>>, <<115>>, <<116>>, <<125>>, <<122>>,
       <<137>>, <<142>>, <<135>>, <<128>>, <<149>>, <<146>>, <<155>>, <<156>>,
       <<177>>, <<182>>, <<191>>, <<184>>, <<173>>, <<170>>, <<163>>, <<164>>,
       <<249>>, <<254>>, <<247>>, <<240>>, <<229>>, <<226>>, <<235>>, <<236>>,
       <<193>>, <<198>>, <<207>>, <<200>>, <<221>>, <<218>>, <<211>>, <<212>>,
       <<105>>, <<110>>, <<103>>, <<96>>, <<117>>, <<114>>, <<123>>, <<124>>,
       <<81>>, <<86>>, <<95>>, <<88>>, <<77>>, <<74>>, <<67>>, <<68>>,
       <<25>>, <<30>>, <<23>>, <<16>>, <<5>>, <<2>>, <<11>>, <<12>>,
       <<33>>, <<38>>, <<47>>, <<40>>, <<61>>, <<58>>, <<51>>, <<52>>,
       <<78>>, <<73>>, <<64>>, <<71>>, <<82>>, <<85>>, <<92>>, <<91>>,
       <<118>>, <<113>>, <<120>>, <<127>>, <<106>>, <<109>>, <<100>>, <<99>>,
       <<62>>, <<57>>, <<48>>, <<55>>, <<34>>, <<37>>, <<44>>, <<43>>,
       <<6>>, <<1>>, <<8>>, <<15>>, <<26>>, <<29>>, <<20>>, <<19>>,
       <<174>>, <<169>>, <<160>>, <<167>>, <<178>>, <<181>>, <<188>>, <<187>>,
       <<150>>, <<145>>, <<152>>, <<159>>, <<138>>, <<141>>, <<132>>, <<131>>,
       <<222>>, <<217>>, <<208>>, <<215>>, <<194>>, <<197>>, <<204>>, <<203>>,
       <<230>>, <<225>>, <<232>>, <<239>>, <<250>>, <<253>>, <<244>>, <<243>> >>

crc16_table ==
    << <<0, 0>>, <<16, 33>>, <<32, 66>>, <<48, 99>>, <<64, 132>>, <<80, 165>>, <<96, 198>>, <<112, 231>>,
       <<129, 8>>, <<145, 41>>, <<161, 74>>, <<177, 107>>, <<193, 140>>, <<209, 173>>, <<225, 206>>, <<241, 239>>,
       <<18, 49>>, <<2, 16>>, <<50, 115>>, <<34, 82>>, <<82, 181>>, <<66, 148>>, <<114, 247>>, <<98, 214>>,
       <<147, 57>>, <<131, 24>>, <<179, 123>>, <<163, 90>>, <<211, 189>>, <<195, 156>>, <<243, 255>>, <<227, 222>>,
       <<36, 98>>, <<52, 67>>, <<4, 32>>, <<20, 1>>, <<100, 230>>, <<116, 199>>, <<68, 164>>, <<84, 133>>,
       <<165, 106>>, <<181, 75>>, <<133, 40>>, <<149, 9>>, <<229, 238>>, <<245, 207>>, <<197, 172>>, <<213, 141>>,
       <<54, 83>>, <<38, 114>>, <<22, 17>>, <<6, 48>>, <<118, 215>>, <<102, 246>>, <<86, 149>>, <<70, 180>>,
       <<183, 91>>, <<167, 122>>, <<151, 25>>, <<135, 56>>, <<247, 223>>, <<231, 254>>, <<215, 157>>, <<199, 188>>,
       <<72, 196>>, <<88, 229>>, <<104, 134>>, <<120, 167>>, <<8, 64>>, <<24, 97>>, <<40, 2>>, <<56, 35>>,
       <<201, 204>>, <<217, 237>>, <<233, 142>>, <<249, 175>>, <<137, 72>>, <<153, 105>>, <<169, 10>>, <<185, 43>>,
       <<90, 245>>, <<74, 212>>, <<122, 183>>, <<106, 150>>, <<26, 113>>, <<10, 80>>, <<58, 51>>, <<42, 18>>,
       <<219, 253>>, <<203, 220>>, <<251, 191>>, <<235, 158>>, <<155, 121>>, <<139, 88>>, <<187, 59>>, <<171, 26>>,
       <<108, 166>>, <<124, 135>>, <<76, 228>>, <<92, 197>>, <<44, 34>>, <<60, 3>>, <<12, 96>>, <<28, 65>>,
       <<237, 174>>, <<253, 143>>, <<205, 236>>, <<221, 205>>, <<173, 42>>, <<189, 11>>, <<141, 104>>, <<157, 73>>,
       <<126, 151>>, <<110, 182>>, <<94, 213>>, <<78, 244>>, <<62, 19>>, <<46, 50>>, <<30, 81>>, <<14, 112>>,
       <<255, 159>>, <<239, 190>>, <<223, 221>>, <<207, 252>>, <<191, 27>>, <<175, 58>>, <<159, 89>>, <<143, 120>>,
       <<145, 136>>, <<129, 169>>, <<177, 202>>, <<161, 235>>, <<209, 12>>, <<193, 45>>, <<241, 78>>, <<225, 111>>,
       <<16, 128>>, <<0, 161>>, <<48, 194>>, <<32, 227>>, <<80, 4>>, <<64, 37>>, <<112, 70>>, <<96, 103>>,
       <<131, 185>>, <<147, 152>>, <<163, 251>>, <<179, 218>>, <<195, 61>>, <<211, 28>>, <<227, 127>>, <<243, 94>>,
       <<2, 177>>, <<18, 144>>, <<34, 243>>, <<50, 210>>, <<66, 53>>, <<82, 20>>, <<98, 119>>, <<114, 86>>,
       <<181, 234>>, <<165, 203>>, <<149, 168>>, <<133, 137>>, <<245, 110>>, <<229, 79>>, <<213, 44>>, <<197, 13>>,
       <<52, 226>>, <<36, 195>>, <<20, 160>>, <<4, 129>>, <<116, 102>>, <<100, 71>>, <<84, 36>>, <<68, 5>>,
       <<167, 219>>, <<183, 250>>, <<135, 153>>, <<151, 184>>, <<231, 95>>, <<247, 126>>, <<199, 29>>, <<215, 60>>,
       <<38, 211>>, <<54, 242>>, <<6, 145>>, <<22, 176>>, <<102, 87>>, <<118, 118>>, <<70, 21>>, <<86, 52>>,
       <<217, 76>>, <<201, 109>>, <<249, 14>>, <<233, 47>>, <<153, 200>>, <<137, 233>>, <<185, 138>>, <<169, 171>>,
       <<88, 68>>, <<72, 101>>, <<120, 6>>, <<104, 39>>, <<24, 192>>, <<8, 225>>, <<56, 130>>, <<40, 163>>,
       <<203, 125>>, <<219, 92>>, <<235, 63>>, <<251, 30>>, <<139, 249>>, <<155, 216>>, <<171, 187>>, <<187, 154>>,
       <<74, 117>>, <<90, 84>>, <<106, 55>>, <<122, 22>>, <<10, 241>>, <<26, 208>>, <<42, 179>>, <<58, 146>>,
       <<253, 46>>, <<237, 15>>, <<221, 108>>, <<205, 77>>, <<189, 170>>, <<173, 139>>, <<157, 232>>, <<141, 201>>,
       <<124, 38>>, <<108, 7>>, <<92, 100>>, <<76, 69>>, <<60, 162>>, <<44, 131>>, <<28, 224>>, <<12, 193>>,
       <<239, 31>>, <<255, 62>>, <<207, 93>>, <<223, 124>>, <<175, 155>>, <<191, 186>>, <<143, 217>>, <<159, 248>>,
       <<110, 23>>, <<126, 54>>, <<78, 85>>, <<94, 116>>, <<46, 147>>, <<62, 178>>, <<14, 209>>, <<30, 240>> >>

crc32_table ==
    << <<0, 0, 0, 0>>, <<4, 193, 29, 183>>, <<9, 130, 59, 110>>, <<13, 67, 38, 217>>,
       <<19, 4, 118, 220>>, <<23, 197, 107, 107>>, <<26, 134, 77, 178>>, <<30, 71, 80, 5>>,
       <<38, 8, 237, 184>>, <<34, 201, 240, 15>>, <<47, 138, 214, 214>>, <<43, 75, 203, 97>>,
       <<53, 12, 155, 100>>, <<49, 205, 134, 211>>, <<60, 142, 160, 10>>, <<56, 79, 189, 189>>,
       <<76, 17, 219, 112>>, <<72, 208, 198, 199>>, <<69, 147, 224, 30>>, <<65, 82, 253, 169>>,
       <<95, 21, 173, 172>>, <<91, 212, 176, 27>>, <<86, 151, 150, 194>>, <<82, 86, 139, 117>>,
       <<106, 25, 54, 200>>, <<110, 216, 43, 127>>, <<99, 155, 13, 166>>, <<103, 90, 16, 17>>,
       <<121, 29, 64, 20>>, <<125, 220, 93, 163>>, <<112, 159, 123, 122>>, <<116, 94, 102, 205>>,
       <<152, 35, 182, 224>>, <<156, 226, 171, 87>>, <<145, 161, 141, 142>>, <<149, 96, 144, 57>>,
       <<139, 39, 192, 60>>, <<143, 230, 221, 139>>, <<130, 165, 251, 82>>, <<134, 100, 230, 229>>,
       <<190, 43, 91, 88>>, <<186, 234, 70, 239>>, <<183, 169, 96, 54>>, <<179, 104, 125, 129>>,
       <<173, 47, 45, 132>>, <<169, 238, 48, 51>>, <<164, 173, 22, 234>>, <<160, 108, 11, 93>>,
       <<212, 50, 109, 144>>, <<208, 243, 112, 39>>, <<221, 176, 86, 254>>, <<217, 113, 75, 73>>,
       <<199, 54, 27, 76>>, <<195, 247, 6, 251>>, <<206, 180, 32, 34>>, <<202, 117, 61, 149>>,
       <<242, 58, 128, 40>>, <<246, 251, 157, 159>>, <<251, 184, 187, 70>>, <<255, 121, 166, 241>>,
       <<225, 62, 246, 244>>, <<229, 255, 235, 67>>, <<232, 188, 205, 154>>, <<236, 125, 208, 45>>,
       <<52, 134, 112, 119>>, <<48, 71, 109, 192>>, <<61, 4, 75, 25>>, <<57, 197, 86, 174>>,
       <<39, 130, 6, 171>>, <<35, 67, 27, 28>>, <<46, 0, 61, 197>>, <<42, 193, 32, 114>>,
       <<18, 142, 157, 207>>, <<22, 79, 128, 120>>, <<27, 12, 166, 161>>, <<31, 205, 187, 22>>,
       <<1, 138, 235, 19>>, <<5, 75, 246, 164>>, <<8, 8, 208, 125>>, <<12, 201, 205, 202>>,
       <<120, 151, 171, 7>>, <<124, 86, 182, 176>>, <<113, 21, 144, 105>>, <<117, 212, 141, 222>>,
       <<107, 147, 221, 219>>, <<111, 82, 192, 108>>, <<98, 17, 230, 181>>, <<102, 208, 251, 2>>,
       <<94, 159, 70, 191>>, <<90, 94, 91, 8>>, <<87, 29, 125, 209>>, <<83, 220, 96, 102>>,
       <<77, 155, 48, 99>>, <<73, 90, 45, 212>>, <<68, 25, 11, 13>>, <<64, 216, 22, 186>>,
       <<172, 165, 198, 151>>, <<168, 100, 219, 32>>, <<165, 39, 253, 249>>, <<161, 230, 224, 78>>,
       <<191, 161, 176, 75>>, <<187, 96, 173, 252>>, <<182, 35, 139, 37>>, <<178, 226, 150, 146>>,
       <<138, 173, 43, 47>>, <<142, 108, 54, 152>>, <<131, 47, 16, 65>>, <<135, 238, 13, 246>>,
       <<153, 169, 93, 243>>, <<157, 104, 64, 68>>, <<144, 43, 102, 157>>, <<148, 234, 123, 42>>,
       <<224, 180, 29, 231>>, <<228, 117, 0, 80>>, <<233, 54, 38, 137>>, <<237, 247, 59, 62>>,
       <<243, 176, 107, 59>>, <<247, 113, 118, 140>>, <<250, 50, 80, 85>>, <<254, 243, 77, 226>>,
       <<198, 188, 240, 95>>, <<194, 125, 237, 232>>, <<207, 62, 203, 49>>, <<203, 255, 214, 134>>,
       <<213, 184, 134, 131>>, <<209, 121, 155, 52>>, <<220, 58, 189, 237>>, <<216, 251, 160, 90>>,
       <<105, 12, 224, 238>>, <<109, 205, 253, 89>>, <<96, 142, 219, 128>>, <<100, 79, 198, 55>>,
       <<122, 8, 150, 50>>, <<126, 201, 139, 133>>, <<115, 138, 173, 92>>, <<119, 75, 176, 235>>,
       <<79, 4, 13, 86>>, <<75, 197, 16, 225>>, <<70, 134, 54, 56>>, <<66, 71, 43, 143>>,
       <<92, 0, 123, 138>>, <<88, 193, 102, 61>>, <<85, 130, 64, 228>>, <<81, 67, 93, 83>>,
       <<37, 29, 59, 158>>, <<33, 220, 38, 41>>, <<44, 159, 0, 240>>, <<40, 94, 29, 71>>,
       <<54, 25, 77, 66>>, <<50, 216, 80, 245>>, <<63, 155, 118, 44>>, <<59, 90, 107, 155>>,
       <<3, 21, 214, 38>>, <<7, 212, 203, 145>>, <<10, 151, 237, 72>>, <<14, 86, 240, 255>>,
       <<16, 17, 160, 250>>, <<20, 208, 189, 77>>, <<25, 147, 155, 148>>, <<29, 82, 134, 35>>,
       <<241, 47, 86, 14>>, <<245, 238, 75, 185>>, <<248, 173, 109, 96>>, <<252, 108, 112, 215>>,
       <<226, 43, 32, 210>>, <<230, 234, 61, 101>>, <<235, 169, 27, 188>>, <<239, 104, 6, 11>>,
       <<215, 39, 187, 182>>, <<211, 230, 166, 1>>, <<222, 165, 128, 216>>, <<218, 100, 157, 111>>,
       <<196, 35, 205, 106>>, <<192, 226, 208, 221>>, <<205, 161, 246, 4>>, <<201, 96, 235, 179>>,
       <<189, 62, 141, 126>>, <<185, 255, 144, 201>>, <<180, 188, 182, 16>>, <<176, 125, 171, 167>>,
       <<174, 58, 251, 162>>, <<170, 251, 230, 21>>, <<167, 184, 192, 204>>, <<163, 121, 221, 123>>,
       <<155, 54, 96, 198>>, <<159, 247, 125, 113>>, <<146, 180, 91, 168>>, <<150, 117, 70, 31>>,
       <<136, 50, 22, 26>>, <<140, 243, 11, 173>>, <<129, 176, 45, 116>>, <<133, 113, 48, 195>>,
       <<93, 138, 144, 153>>, <<89, 75, 141, 46>>, <<84, 8, 171, 247>>, <<80, 201, 182, 64>>,
       <<78, 142, 230, 69>>, <<74, 79, 251, 242>>, <<71, 12, 221, 43>>, <<67, 205, 192, 156>>,
       <<123, 130, 125, 33>>, <<127, 67, 96, 150>>, <<114, 0, 70, 79>>, <<118, 193, 91, 248>>,
       <<104, 134, 11, 253>>, <<108, 71, 22, 74>>, <<97, 4, 48, 147>>, <<101, 197, 45, 36>>,
       <<17, 155, 75, 233>>, <<21, 90, 86, 94>>, <<24, 25, 112, 135>>, <<28, 216, 109, 48>>,
       <<2, 159, 61, 53>>, <<6, 94, 32, 130>>, <<11, 29, 6, 91>>, <<15, 220, 27, 236>>,
       <<55, 147, 166, 81>>, <<51, 82, 187, 230>>, <<62, 17, 157, 63>>, <<58, 208, 128, 136>>,
       <<36, 151, 208, 141>>, <<32, 86, 205, 58>>, <<45, 21, 235, 227>>, <<41, 212, 246, 84>>,
       <<197, 169, 38, 121>>, <<193, 104, 59, 206>>, <<204, 43, 29, 23>>, <<200, 234, 0, 160>>,
       <<214, 173, 80, 165>>, <<210, 108, 77, 18>>, <<223, 47, 107, 203>>, <<219, 238, 118, 124>>,
       <<227, 161, 203, 193>>, <<231, 96, 214, 118>>, <<234, 35, 240, 175>>, <<238, 226, 237, 24>>,
       <<240, 165, 189, 29>>, <<244, 100, 160, 170>>, <<249, 39, 134, 115>>, <<253, 230, 155, 196>>,
       <<137, 184, 253, 9>>, <<141, 121, 224, 190>>, <<128, 58, 198, 103>>, <<132, 251, 219, 208>>,
       <<154, 188, 139, 213>>, <<158, 125, 150, 98>>, <<147, 62, 176, 187>>, <<151, 255, 173, 12>>,
       <<175, 176, 16, 177>>, <<171, 113, 13, 6>>, <<166, 50, 43, 223>>, <<162, 243, 54, 104>>,
       <<188, 180, 102, 109>>, <<184, 117, 123, 218>>, <<181, 54, 93, 3>>, <<177, 247, 64, 180>> >>

crc64_table ==
    << <<0, 0, 0, 0, 0, 0, 0, 0>>, <<66, 240, 225, 235, 169, 234, 54, 147>>,
       <<133, 225, 195, 215, 83, 212, 109, 38>>, <<199, 17, 34, 60, 250, 62, 91, 181>>,
       <<73, 51, 102, 69, 14, 66, 236, 223>>, <<11, 195, 135, 174, 167, 168, 218, 76>>,
       <<204, 210, 165, 146, 93, 150, 129, 249>>, <<142, 34, 68, 121, 244, 124, 183, 106>>,
       <<146, 102, 204, 138, 28, 133, 217, 190>>, <<208, 150, 45, 97, 181, 111, 239, 45>>,
       <<23, 135, 15, 93, 79, 81, 180, 152>>, <<85, 119, 238, 182, 230, 187, 130, 11>>,
       <<219, 85, 170, 207, 18, 199, 53, 97>>, <<153, 165, 75, 36, 187, 45, 3, 242>>,
       <<94, 180, 105, 24, 65, 19, 88, 71>>, <<28, 68, 136, 243, 232, 249, 110, 212>>,
       <<102, 61, 120, 255, 144, 225, 133, 239>>, <<36, 205, 153, 20, 57, 11, 179, 124>>,
       <<227, 220, 187, 40, 195, 53, 232, 201>>, <<161, 44, 90, 195, 106, 223, 222, 90>>,
       <<47, 14, 30, 186, 158, 163, 105, 48>>, <<109, 254, 255, 81, 55, 73, 95, 163>>,
       <<170, 239, 221, 109, 205, 119, 4, 22>>, <<232, 31, 60, 134, 100, 157, 50, 133>>,
       <<244, 91, 180, 117, 140, 100, 92, 81>>, <<182, 171, 85, 158, 37, 142, 106, 194>>,
       <<113, 186, 119, 162, 223, 176, 49, 119>>, <<51, 74, 150, 73, 118, 90, 7, 228>>,
       <<189, 104, 210, 48, 130, 38, 176, 142>>, <<255, 152, 51, 219, 43, 204, 134, 29>>,
       <<56, 137, 17, 231, 209, 242, 221, 168>>, <<122, 121, 240, 12, 120, 24, 235, 59>>,
       <<204, 122, 241, 255, 33, 195, 11, 222>>, <<142, 138, 16, 20, 136, 41, 61, 77>>,
       <<73, 155, 50, 40, 114, 23, 102, 248>>, <<11, 107, 211, 195, 219, 253, 80, 107>>,
       <<133, 73, 151, 186, 47, 129, 231, 1>>, <<199, 185, 118, 81, 134, 107, 209, 146>>,
       <<0, 168, 84, 109, 124, 85, 138, 39>>, <<66, 88, 181, 134, 213, 191, 188, 180>>,
       <<94, 28, 61, 117, 61, 70, 210, 96>>, <<28, 236, 220, 158, 148, 172, 228, 243>>,
       <<219, 253, 254, 162, 110, 146, 191, 70>>, <<153, 13, 31, 73, 199, 120, 137, 213>>,
       <<23, 47, 91, 48, 51, 4, 62, 191>>, <<85, 223, 186, 219, 154, 238, 8, 44>>,
       <<146, 206, 152, 231, 96, 208, 83, 153>>, <<208, 62, 121, 12, 201, 58, 101, 10>>,
       <<170, 71, 137, 0, 177, 34, 142, 49>>, <<232, 183, 104, 235, 24, 200, 184, 162>>,
       <<47, 166, 74, 215, 226, 246, 227, 23>>, <<109, 86, 171, 60, 75, 28, 213, 132>>,
       <<227, 116, 239, 69, 191, 96, 98, 238>>, <<161, 132, 14, 174, 22, 138, 84, 125>>,
       <<102, 149, 44, 146, 236, 180, 15, 200>>, <<36, 101, 205, 121, 69, 94, 57, 91>>,
       <<56, 33, 69, 138, 173, 167, 87, 143>>, <<122, 209, 164, 97, 4, 77, 97, 28>>,
       <<189, 192, 134, 93, 254, 115, 58, 169>>, <<255, 48, 103, 182, 87, 153, 12, 58>>,
       <<113, 18, 35, 207, 163, 229, 187, 80>>, <<51, 226, 194, 36, 10, 15, 141, 195>>,
       <<244, 243, 224, 24, 240, 49, 214, 118>>, <<182, 3, 1, 243, 89, 219, 224, 229>>,
       <<218, 5, 2, 21, 234, 108, 33, 47>>, <<152, 245, 227, 254, 67, 134, 23, 188>>,
       <<95, 228, 193, 194, 185, 184, 76, 9>>, <<29, 20, 32, 41, 16, 82, 122, 154>>,
       <<147, 54, 100, 80, 228, 46, 205, 240>>, <<209, 198, 133, 187, 77, 196, 251, 99>>,
       <<22, 215, 167, 135, 183, 250, 160, 214>>, <<84, 39, 70, 108, 30, 16, 150, 69>>,
       <<72, 99, 206, 159, 246, 233, 248, 145>>, <<10, 147, 47, 116, 95, 3, 206, 2>>,
       <<205, 130, 13, 72, 165, 61, 149, 183>>, <<143, 114, 236, 163, 12, 215, 163, 36>>,
       <<1, 80, 168, 218, 248, 171, 20, 78>>, <<67, 160, 73, 49, 81, 65, 34, 221>>,
       <<132, 177, 107, 13, 171, 127, 121, 104>>, <<198, 65, 138, 230, 2, 149, 79, 251>>,
       <<188, 56, 122, 234, 122, 141, 164, 192>>, <<254, 200, 155, 1, 211, 103, 146, 83>>,
       <<57, 217, 185, 61, 41, 89, 201, 230>>, <<123, 41, 88, 214, 128, 179, 255, 117>>,
       <<245, 11, 28, 175, 116, 207, 72, 31>>, <<183, 251, 253, 68, 221, 37, 126, 140>>,
       <<112, 234, 223, 120, 39, 27, 37, 57>>, <<50, 26, 62, 147, 142, 241, 19, 170>>,
       <<46, 94, 182, 96, 102, 8, 125, 126>>, <<108, 174, 87, 139, 207, 226, 75, 237>>,
       <<171, 191, 117, 183, 53, 220, 16, 88>>, <<233, 79, 148, 92, 156, 54, 38, 203>>,
       <<103, 109, 208, 37, 104, 74, 145, 161>>, <<37, 157, 49, 206, 193, 160, 167, 50>>,
       <<226, 140, 19, 242, 59, 158, 252, 135>>, <<160, 124, 242, 25, 146, 116, 202, 20>>,
       <<22, 127, 243, 234, 203, 175, 42, 241>>, <<84, 143, 18, 1, 98, 69, 28, 98>>,
       <<147, 158, 48, 61, 152, 123, 71, 215>>, <<209, 110, 209, 214, 49, 145, 113, 68>>,
       <<95, 76, 149, 175, 197, 237, 198, 46>>, <<29, 188, 116, 68, 108, 7, 240, 189>>,
       <<218, 173, 86, 120, 150, 57, 171, 8>>, <<152, 93, 183, 147, 63, 211, 157, 155>>,
       <<132, 25, 63, 96, 215, 42, 243, 79>>, <<198, 233, 222, 139, 126, 192, 197, 220>>,
       <<1, 248, 252, 183, 132, 254, 158, 105>>, <<67, 8, 29, 92, 45, 20, 168, 250>>,
       <<205, 42, 89, 37, 217, 104, 31, 144>>, <<143, 218, 184, 206, 112, 130, 41, 3>>,
       <<72, 203, 154, 242, 138, 188, 114, 182>>, <<10, 59, 123, 25, 35, 86, 68, 37>>,
       <<112, 66, 139, 21, 91, 78, 175, 30>>, <<50, 178, 106, 254, 242, 164, 153, 141>>,
       <<245, 163, 72, 194, 8, 154, 194, 56>>, <<183, 83, 169, 41, 161, 112, 244, 171>>,
       <<57, 113, 237, 80, 85, 12, 67, 193>>, <<123, 129, 12, 187, 252, 230, 117, 82>>,
       <<188, 144, 46, 135, 6, 216, 46, 231>>, <<254, 96, 207, 108, 175, 50, 24, 116>>,
       <<226, 36, 71, 159, 71, 203, 118, 160>>, <<160, 212, 166, 116, 238, 33, 64, 51>>,
       <<103, 197, 132, 72, 20, 31, 27, 134>>, <<37, 53, 101, 163, 189, 245, 45, 21>>,
       <<171, 23, 33, 218, 73, 137, 154, 127>>, <<233, 231, 192, 49, 224, 99, 172, 236>>,
       <<46, 246, 226, 13, 26, 93, 247, 89>>, <<108, 6, 3, 230, 179, 183, 193, 202>>,
       <<246, 250, 229, 192, 125, 50, 116, 205>>, <<180, 10, 4, 43, 212, 216, 66, 94>>,
       <<115, 27, 38, 23, 46, 230, 25, 235>>, <<49, 235, 199, 252, 135, 12, 47, 120>>,
       <<191, 201, 131, 133, 115, 112, 152, 18>>, <<253, 57, 98, 110, 218, 154, 174, 129>>,
       <<58, 40, 64, 82, 32, 164, 245, 52>>, <<120, 216, 161, 185, 137, 78, 195, 167>>,
       <<100, 156, 41, 74, 97, 183, 173, 115>>, <<38, 108, 200, 161, 200, 93, 155, 224>>,
       <<225, 125, 234, 157, 50, 99, 192, 85>>, <<163, 141, 11, 118, 155, 137, 246, 198>>,
       <<45, 175, 79, 15, 111, 245, 65, 172>>, <<111, 95, 174, 228, 198, 31, 119, 63>>,
       <<168, 78, 140, 216, 60, 33, 44, 138>>, <<234, 190, 109, 51, 149, 203, 26, 25>>,
       <<144, 199, 157, 63, 237, 211, 241, 34>>, <<210, 55, 124, 212, 68, 57, 199, 177>>,
       <<21, 38, 94, 232, 190, 7, 156, 4>>, <<87, 214, 191, 3, 23, 237, 170, 151>>,
       <<217, 244, 251, 122, 227, 145, 29, 253>>, <<155, 4, 26, 145, 74, 123, 43, 110>>,
       <<92, 21, 56, 173, 176, 69, 112, 219>>, <<30, 229, 217, 70, 25, 175, 70, 72>>,
       <<2, 161, 81, 181, 241, 86, 40, 156>>, <<64, 81, 176, 94, 88, 188, 30, 15>>,
       <<135, 64, 146, 98, 162, 130, 69, 186>>, <<197, 176, 115, 137, 11, 104, 115, 41>>,
       <<75, 146, 55, 240, 255, 20, 196, 67>>, <<9, 98, 214, 27, 86, 254, 242, 208>>,
       <<206, 115, 244, 39, 172, 192, 169, 101>>, <<140, 131, 21, 204, 5, 42, 159, 246>>,
       <<58, 128, 20, 63, 92, 241, 127, 19>>, <<120, 112, 245, 212, 245, 27, 73, 128>>,
       <<191, 97, 215, 232, 15, 37, 18, 53>>, <<253, 145, 54, 3, 166, 207, 36, 166>>,
       <<115, 179, 114, 122, 82, 179, 147, 204>>, <<49, 67, 147, 145, 251, 89, 165, 95>>,
       <<246, 82, 177, 173, 1, 103, 254, 234>>, <<180, 162, 80, 70, 168, 141, 200, 121>>,
       <<168, 230, 216, 181, 64, 116, 166, 173>>, <<234, 22, 57, 94, 233, 158, 144, 62>>,
       <<45, 7, 27, 98, 19, 160, 203, 139>>, <<111, 247, 250, 137, 186, 74, 253, 24>>,
       <<225, 213, 190, 240, 78, 54, 74, 114>>, <<163, 37, 95, 27, 231, 220, 124, 225>>,
       <<100, 52, 125, 39, 29, 226, 39, 84>>, <<38, 196, 156, 204, 180, 8, 17, 199>>,
       <<92, 189, 108, 192, 204, 16, 250, 252>>, <<30, 77, 141, 43, 101, 250, 204, 111>>,
       <<217, 92, 175, 23, 159, 196, 151, 218>>, <<155, 172, 78, 252, 54, 46, 161, 73>>,
       <<21, 142, 10, 133, 194, 82, 22, 35>>, <<87, 126, 235, 110, 107, 184, 32, 176>>,
       <<144, 111, 201, 82, 145, 134, 123, 5>>, <<210, 159, 40, 185, 56, 108, 77, 150>>,
       <<206, 219, 160, 74, 208, 149, 35, 66>>, <<140, 43, 65, 161, 121, 127, 21, 209>>,
       <<75, 58, 99, 157, 131, 65, 78, 100>>, <<9, 202, 130, 118, 42, 171, 120, 247>>,
       <<135, 232, 198, 15, 222, 215, 207, 157>>, <<197, 24, 39, 228, 119, 61, 249, 14>>,
       <<2, 9, 5, 216, 141, 3, 162, 187>>, <<64, 249, 228, 51, 36, 233, 148, 40>>,
       <<44, 255, 231, 213, 151, 94, 85, 226>>, <<110, 15, 6, 62, 62, 180, 99, 113>>,
       <<169, 30, 36, 2, 196, 138, 56, 196>>, <<235, 238, 197, 233, 109, 96, 14, 87>>,
       <<101, 204, 129, 144, 153, 28, 185, 61>>, <<39, 60, 96, 123, 48, 246, 143, 174>>,
       <<224, 45, 66, 71, 202, 200, 212, 27>>, <<162, 221, 163, 172, 99, 34, 226, 136>>,
       <<190, 153, 43, 95, 139, 219, 140, 92>>, <<252, 105, 202, 180, 34, 49, 186, 207>>,
       <<59, 120, 232, 136, 216, 15, 225, 122>>, <<121, 136, 9, 99, 113, 229, 215, 233>>,
       <<247, 170, 77, 26, 133, 153, 96, 131>>, <<181, 90, 172, 241, 44, 115, 86, 16>>,
       <<114, 75, 142, 205, 214, 77, 13, 165>>, <<48, 187, 111, 38, 127, 167, 59, 54>>,
       <<74, 194, 159, 42, 7, 191, 208, 13>>, <<8, 50, 126, 193, 174, 85, 230, 158>>,
       <<207, 35, 92, 253, 84, 107, 189, 43>>, <<141, 211, 189, 22, 253, 129, 139, 184>>,
       <<3, 241, 249, 111, 9, 253, 60, 210>>, <<65, 1, 24, 132, 160, 23, 10, 65>>,
       <<134, 16, 58, 184, 90, 41, 81, 244>>, <<196, 224, 219, 83, 243, 195, 103, 103>>,
       <<216, 164, 83, 160, 27, 58, 9, 179>>, <<154, 84, 178, 75, 178, 208, 63, 32>>,
       <<93, 69, 144, 119, 72, 238, 100, 149>>, <<31, 181, 113, 156, 225, 4, 82, 6>>,
       <<145, 151, 53, 229, 21, 120, 229, 108>>, <<211, 103, 212, 14, 188, 146, 211, 255>>,
       <<20, 118, 246, 50, 70, 172, 136, 74>>, <<86, 134, 23, 217, 239, 70, 190, 217>>,
       <<224, 133, 22, 42, 182, 157, 94, 60>>, <<162, 117, 247, 193, 31, 119, 104, 175>>,
       <<101, 100, 213, 253, 229, 73, 51, 26>>, <<39, 148, 52, 22, 76, 163, 5, 137>>,
       <<169, 182, 112, 111, 184, 223, 178, 227>>, <<235, 70, 145, 132, 17, 53, 132, 112>>,
       <<44, 87, 179, 184, 235, 11, 223, 197>>, <<110, 167, 82, 83, 66, 225, 233, 86>>,
       <<114, 227, 218, 160, 170, 24, 135, 130>>, <<48, 19, 59, 75, 3, 242, 177, 17>>,
       <<247, 2, 25, 119, 249, 204, 234, 164>>, <<181, 242, 248, 156, 80, 38, 220, 55>>,
       <<59, 208, 188, 229, 164, 90, 107, 93>>, <<121, 32, 93, 14, 13, 176, 93, 206>>,
       <<190, 49, 127, 50, 247, 142, 6, 123>>, <<252, 193, 158, 217, 94, 100, 48, 232>>,
       <<134, 184, 110, 213, 38, 124, 219, 211>>, <<196, 72, 143, 62, 143, 150, 237, 64>>,
       <<3, 89, 173, 2, 117, 168, 182, 245>>, <<65, 169, 76, 233, 220, 66, 128, 102>>,
       <<207, 139, 8, 144, 40, 62, 55, 12>>, <<141, 123, 233, 123, 129, 212, 1, 159>>,
       <<74, 106, 203, 71, 123, 234, 90, 42>>, <<8, 154, 42, 172, 210, 0, 108, 185>>,
       <<20, 222, 162, 95, 58, 249, 2, 109>>, <<86, 46, 67, 180, 147, 19, 52, 254>>,
       <<145, 63, 97, 136, 105, 45, 111, 75>>, <<211, 207, 128, 99, 192, 199, 89, 216>>,
       <<93, 237, 196, 26, 52, 187, 238, 178>>, <<31, 29, 37, 241, 157, 81, 216, 33>>,
       <<216, 12, 7, 205, 103, 111, 131, 148>>, <<154, 252, 230, 38, 206, 133, 181, 7>> >>

\* details::crc_generic(data, size, table, initial, final_xor)
RECURSIVE crc_generic(_, _, _, _)
crc_generic(data, table, crc, final_xor) ==
    IF data = << >>
    THEN [k \in 1..Len(crc) |-> Xor(crc[k], final_xor[k])]
    ELSE LET byte == Head(data)
             index == Xor(crc[1], byte)
             shifted == Tail(crc) \o <<0>>
         IN  crc_generic(Tail(data), table,
                         [k \in 1..Len(crc) |-> Xor(shifted[k], table[index + 1][k])],
                         final_xor)

\* a + b in an unsigned type of Len(a) bytes
RECURSIVE Carry(_, _, _)
Carry(a, b, k) == IF k > Len(a) THEN 0 ELSE (a[k] + b[k] + Carry(a, b, k + 1)) \div 256
Plus(a, b) == [k \in 1..Len(a) |-> (a[k] + b[k] + Carry(a, b, k + 1)) % 256]

\* details::sum_generic<SumType>(data, size), SumType of `width` bytes
sum_generic(data, width) ==
    LET size == Len(data)
        word_count == size \div WordSize
        \* static_cast<SumType>(words[i]) : the low bytes of the i-th word
        Low(i) == [k \in 1..width |-> data[i * WordSize + width + 1 - k]]
        RECURSIVE Bulk(_, _)
        Bulk(i, sum) == IF i = word_count THEN sum ELSE Bulk(i + 1, Plus(sum, Low(i)))
        tail_offset == word_count * WordSize
        remaining == size - tail_offset
        \* static_cast<SumType>(tail[i] << (8 * (i % sizeof(SumType))))
        Shifted(i) == [k \in 1..width |->
                        IF k = width - (i % width) THEN data[tail_offset + i + 1] ELSE 0]
        RECURSIVE TailSum(_, _)
        TailSum(i, sum) == IF i = remaining THEN sum
                           ELSE TailSum(i + 1, Plus(sum, Shifted(i)))
    IN  IF width = WordSize THEN Bulk(0, Zero(width))
        ELSE TailSum(0, Bulk(0, Zero(width)))

\* compute<fletcher16>
fletcher16(data) ==
    LET RECURSIVE Run(_, _, _)
        Run(i, sum1, sum2) ==
            IF i > Len(data) THEN <<sum2, sum1>>
            ELSE LET s1 == (sum1 + data[i]) % 255
                 IN  Run(i + 1, s1, (sum2 + s1) % 255)
    IN  Run(1, 0, 0)

\* compute<fletcher32>
fletcher32(data) ==
    LET size == Len(data)
        word_count == size \div 2
        RECURSIVE Run(_, _, _)
        Run(i, sum1, sum2) ==
            IF i = word_count THEN <<sum1, sum2>>
            ELSE LET s1 == (sum1 + LittleEndian(data, 2 * i + 1, 2)) % 65535
                 IN  Run(i + 1, s1, (sum2 + s1) % 65535)
        bulk == Run(0, 0, 0)
        sum1 == IF size % 2 # 0 THEN (bulk[1] + data[size]) % 65535 ELSE bulk[1]
        sum2 == IF size % 2 # 0 THEN (bulk[2] + sum1) % 65535 ELSE bulk[2]
    IN  Word(sum2, 2) \o Word(sum1, 2)

\* compute<adler32>
adler32(data) ==
    LET RECURSIVE Run(_, _, _)
        Run(i, sum1, sum2) ==
            IF i > Len(data) THEN Word(sum2, 2) \o Word(sum1, 2)
            ELSE LET s1 == (sum1 + data[i]) % 65521
                 IN  Run(i + 1, s1, (sum2 + s1) % 65521)
    IN  Run(1, 1, 0)

\* compute<internet16>
internet16(data) ==
    LET size == Len(data)
        word_count == size \div 2
        RECURSIVE Words(_)
        Words(i) == IF i = word_count THEN 0
                    ELSE LittleEndian(data, 2 * i + 1, 2) + Words(i + 1)
        RECURSIVE Fold(_)
        Fold(sum) == IF Shr(sum, 16) # 0 THEN Fold(And(sum, 65535) + Shr(sum, 16)) ELSE sum
        sum == Words(0) + (IF size % 2 # 0 THEN Shl(data[size], 8) ELSE 0)
    IN  Word(Not(Fold(sum), 16), 2)

\* the checksum policies a framed_packet is instantiated with, and their sizes
Policies ==
    {"sum8", "sum16", "crc8", "crc16", "crc32", "crc64",
     "fletcher16", "fletcher32", "adler32", "internet16"}
CrcPolicies == {"crc8", "crc16", "crc32", "crc64"}
PolicySize(policy) ==
    CASE policy \in {"sum8", "crc8"} -> 1
      [] policy \in {"sum16", "crc16", "fletcher16", "internet16"} -> 2
      [] policy \in {"sum32", "crc32", "fletcher32", "adler32"} -> 4
      [] policy = "crc64" -> 8

\* compute<ChecksumPolicy>()(data, size)
compute(policy, data) ==
    CASE policy = "sum8" -> sum_generic(data, 1)
      [] policy = "sum16" -> sum_generic(data, 2)
      [] policy = "sum32" -> sum_generic(data, 4)
      [] policy = "crc8" -> crc_generic(data, crc8_table, Zero(1), Zero(1))
      [] policy = "crc16" -> crc_generic(data, crc16_table, Zero(2), Zero(2))
      [] policy = "crc32" -> crc_generic(data, crc32_table, Zero(4), Zero(4))
      [] policy = "crc64" -> crc_generic(data, crc64_table, Zero(8), Zero(8))
      [] policy = "fletcher16" -> fletcher16(data)
      [] policy = "fletcher32" -> fletcher32(data)
      [] policy = "adler32" -> adler32(data)
      [] policy = "internet16" -> internet16(data)

(***************************************************************************)
(* framed_packet, its validator and the transport interface.  A packet is  *)
(* sent and received as the bytes of the packed object: the header word    *)
(* (low byte first), sender_id, receiver_id, status_code, task_id, the     *)
(* payload and the fcs (low byte first).                                   *)
(***************************************************************************)
\* framed_packet(header, task_id, status_code, payload, payload_size): the payload
\* field is zero-initialised and the bytes given are copied to its start; fcs has no
\* initializer and holds whatever the memory held
framed_packet(header, task_id, status_code, data, garbage) ==
    [header |-> header, status_code |-> status_code, task_id |-> task_id,
     payload |-> [k \in 1..PayloadSize |-> IF k <= Len(data) THEN data[k] ELSE 0],
     fcs |-> garbage]

\* reinterpret_cast<const std::byte*>(&packet): the bytes of the object
Image(p) ==
    <<p.header.space % 256, p.header.space \div 256, p.header.sender_id,
      p.header.receiver_id, p.status_code, p.task_id>> \o p.payload \o Reverse(p.fcs)

\* the object whose bytes are given (readBytes into the packet)
Parse(bytes, size) ==
    [header |-> [space |-> LittleEndian(bytes, 1, 2), sender_id |-> bytes[3],
                 receiver_id |-> bytes[4]],
     status_code |-> bytes[5],
     task_id |-> bytes[6],
     payload |-> SubSeq(bytes, 7, 6 + PayloadSize),
     fcs |-> Reverse(SubSeq(bytes, 7 + PayloadSize, 6 + PayloadSize + size))]

\* framed_packet::packet_size
packet_size(p) == Len(Image(p))

\* mutant of seal: the checksum is taken over the whole object, fcs included
MutSealCoversFcs(p, c) ==
    [p EXCEPT !.fcs = compute(c, Prefix(Image(p), packet_size(p)))]

\* validator<framed_packet>::seal
seal(p, c) ==
    [p EXCEPT !.fcs = compute(c, Prefix(Image(p), packet_size(p) - PolicySize(c)))]

\* mutant of is_valid: the validator of basic_packet, which accepts everything
MutIsValidBasicPacket(p, c) == TRUE

\* validator<framed_packet>::is_valid
is_valid(p, c) ==
    p.fcs = compute(c, Prefix(Image(p), packet_size(p) - PolicySize(c)))

\* serial_interface::delegate_try_receive: a packet once all its bytes are available,
\* and the bytes left in the buffer
delegate_try_receive(buffer, c) ==
    LET size == 6 + PayloadSize + PolicySize(c)
    IN  IF Len(buffer) < size
        THEN [packet |-> << >>, rest |-> buffer]
        ELSE [packet |-> <<Parse(Prefix(buffer, size), PolicySize(c))>>,
              rest |-> SubSeq(buffer, size + 1, Len(buffer))]

\* mutant of try_receive: the older revision, which hands on whatever was read
MutTryReceiveUnfiltered(buffer, c) == delegate_try_receive(buffer, c)

\* interface::try_receive
try_receive(buffer, c) ==
    LET read == delegate_try_receive(buffer, c)
        packet == read.packet
    IN  IF /\ packet # << >>
           /\ packet[1].header.receiver_id = BoardId
           /\ is_valid(packet[1], c)
        THEN read
        ELSE [packet |-> << >>, rest |-> read.rest]

\* the packet as external_channel reads it
View(p) ==
    [header |-> [type |-> type_of(p.header), flags |-> flags_of(p.header),
                 validated |-> validated_of(p.header), sender_id |-> p.header.sender_id,
                 receiver_id |-> p.header.receiver_id],
     task_id |-> p.task_id, status |-> p.status_code, payload |-> p.payload]

\* the bytes with bit b flipped, the bits numbered from 1
FlipBit(bytes, b) ==
    [bytes EXCEPT ![((b - 1) \div 8) + 1] = Xor(@, 2^((b - 1) % 8))]

\* the remote device, its commands and what its fcs field holds before sealing
LinkFlags == {"none", "ack"}
LinkReceivers == {BoardId, 1}
LinkPayloads == {CommandPayload, [k \in 1..PayloadSize |-> 255]}
Garbage(c) == {Zero(PolicySize(c)), [k \in 1..PolicySize(c) |-> 255]}

\* the header a remote device builds: the field constructor compiled there, with
\* that device's ETASK_BOARD_ID
RemoteHeader(f, receiver_id, board) ==
    [packet_header_fields([type |-> 0, encrypted |-> FALSE, fragmented |-> FALSE,
                           priority |-> 0, flags |-> header_flags[f], validated |-> FALSE,
                           reserved |-> FALSE, receiver_id |-> receiver_id])
        EXCEPT !.sender_id = board]

\* validator.seal(packet), called on its own
Seal ==
    /\ phase = "built"
    /\ lib' = [lib EXCEPT !.pkt.packet = seal(@, checksum_policy)]
    /\ UNCHANGED <<schedvars, hubvars>>

\* interface::send(packet) on the remote device: seal, then write the object's bytes
Send ==
    /\ phase = "built"
    /\ LET sealed == seal(pkt.packet, checksum_policy)
       IN  lib' = [lib EXCEPT !.pkt.packet = sealed,
                              !.line = Image(sealed),
                              !.phase = "sent"]
    /\ UNCHANGED <<schedvars, hubvars>>

\* one bit of the packet is flipped in flight
Flip(b) ==
    /\ phase = "sent"
    /\ damage = 0
    /\ Len(line) = packet_size(pkt.packet)
    /\ lib' = [lib EXCEPT !.line = FlipBit(line, b), !.damage = b]
    /\ UNCHANGED <<schedvars, hubvars>>

\* the next n bytes reach this device's receive buffer
Arrive(n) ==
    /\ phase = "sent"
    /\ lib' = [lib EXCEPT !.inbox = inbox \o Prefix(line, n),
                          !.line = SubSeq(line, n + 1, Len(line)),
                          !.phase = IF n = Len(line) THEN "arrived" ELSE "sent"]
    /\ UNCHANGED <<schedvars, hubvars>>

\* external_channel::update on this device, its hub polling the one transport
LinkUpdate ==
    /\ fault = "none"
    /\ phase # "idle"
    /\ LET read == try_receive(inbox, checksum_policy)
       IN  /\ lib' = [lib EXCEPT !.got = read.packet, !.inbox = read.rest]
           /\ BridgeReceive(IF read.packet = << >> THEN << >>
                            ELSE <<[built_with |-> pkt.built_with,
                                    packet |-> View(read.packet[1])]>>)
    /\ UNCHANGED <<last, fault>>

LinkInit ==
    /\ Quiescent
    /\ stl = "copying"
    /\ \E c \in Policies, f \in LinkFlags, r \in LinkReceivers, d \in LinkPayloads :
         \E g \in Garbage(c) :
            lib = [checksum_policy |-> c,
                   pkt |-> [built_with |-> f,
                            packet |-> framed_packet(RemoteHeader(f, r, 7), 1, 0, d, g)],
                   phase |-> "built",
                   line |-> << >>,
                   damage |-> 0,
                   inbox |-> << >>,
                   got |-> << >>]

LinkNext ==
    \/ Seal
    \/ Send
    \/ \E b \in 1..(8 * Len(line)) : Flip(b)
    \/ \E n \in {Len(line)} \cup (IF Len(line) > 1 /\ inbox = << >> THEN {Len(line) - 1} ELSE {}) :
            Arrive(n)
    \/ LinkUpdate

\* LinkSpec: one framed packet built, sealed and sent by a remote device, possibly
\* damaged in flight, and polled for by this device's bridge
LinkSpec == LinkInit /\ [][LinkNext]_vars

(***************************************************************************)
(* hub: the fan-out of sends and the ordered polling of receives over the  *)
(* transports it was instantiated with, numbered in registration order.    *)
(***************************************************************************)
\* typeset<Interfaces...>: one flag per type
typeset_set(statuses, i) == [statuses EXCEPT ![i] = TRUE]
typeset_reset(statuses, i) == [statuses EXCEPT ![i] = FALSE]
typeset_test(statuses, i) == statuses[i]

\* the packets handed to and found by the hub
HubPackets ==
    { basic_packet(packet_header("data", header_flags.none, FALSE, BoardId, i),
                   1, "ok", CommandPayload) : i \in Initiators }

\* a call the hub makes on transport i
TransportCall(i, op, packet) == [transport |-> i, op |-> op, packet |-> packet]

\* mutant of maybe_send: the receiver flag is tested
MutMaybeSendTestsReceiver(i, packet) ==
    IF typeset_test(receiver_statuses, i) THEN <<TransportCall(i, "send", <<packet>>)>> ELSE << >>

\* hub::maybe_send: the calls it makes
maybe_send(i, packet) ==
    IF typeset_test(sender_statuses, i) THEN <<TransportCall(i, "send", <<packet>>)>> ELSE << >>

\* the fold (..., maybe_send(interfaces, packet)) from transport i on
RECURSIVE SendFold(_, _)
SendFold(i, packet) ==
    IF i > NumTransports THEN << >>
    ELSE maybe_send(i, packet) \o SendFold(i + 1, packet)

\* mutant of maybe_try_receive: the transport is polled whatever its flag says
MutMaybeTryReceiveIgnoresFlag(i) ==
    [calls |-> <<TransportCall(i, "try_receive", << >>)>>,
     result |-> pending[i]]

\* hub::maybe_try_receive: the calls it makes and what it returns; the transport's
\* try_receive yields its waiting packet
maybe_try_receive(i) ==
    IF typeset_test(receiver_statuses, i)
    THEN [calls |-> <<TransportCall(i, "try_receive", << >>)>>,
          result |-> pending[i]]
    ELSE [calls |-> << >>, result |-> << >>]

\* the fold (... || poll(interfaces)) from transport i on: it stops at the first
\* transport that yields a packet
RECURSIVE ReceiveFold(_)
ReceiveFold(i) ==
    IF i > NumTransports THEN [calls |-> << >>, result |-> << >>]
    ELSE LET maybe == maybe_try_receive(i)
         IN  IF maybe.result # << >> THEN maybe
             ELSE LET rest == ReceiveFold(i + 1)
                  IN  [calls |-> maybe.calls \o rest.calls, result |-> rest.result]

\* hub::use_sender<Ti>, remove_sender<Ti>, use_receiver<Ti>, remove_receiver<Ti>
use_sender(i) ==
    /\ lib' = [lib EXCEPT !.sender_statuses = typeset_set(sender_statuses, i),
                          !.hubop = [op |-> "use_sender", transport |-> i],
                          !.made = << >>]
    /\ UNCHANGED <<schedvars, hubvars>>

\* mutant of remove_sender: the flag is reset in the receiver set
MutRemoveSenderClearsReceiver(i) ==
    /\ lib' = [lib EXCEPT !.receiver_statuses = typeset_reset(receiver_statuses, i),
                          !.hubop = [op |-> "remove_sender", transport |-> i],
                          !.made = << >>]
    /\ UNCHANGED <<schedvars, hubvars>>

remove_sender(i) ==
    /\ lib' = [lib EXCEPT !.sender_statuses = typeset_reset(sender_statuses, i),
                          !.hubop = [op |-> "remove_sender", transport |-> i],
                          !.made = << >>]
    /\ UNCHANGED <<schedvars, hubvars>>

use_receiver(i) ==
    /\ lib' = [lib EXCEPT !.receiver_statuses = typeset_set(receiver_statuses, i),
                          !.hubop = [op |-> "use_receiver", transport |-> i],
                          !.made = << >>]
    /\ UNCHANGED <<schedvars, hubvars>>

remove_receiver(i) ==
    /\ lib' = [lib EXCEPT !.receiver_statuses = typeset_reset(receiver_statuses, i),
                          !.hubop = [op |-> "remove_receiver", transport |-> i],
                          !.made = << >>]
    /\ UNCHANGED <<schedvars, hubvars>>

\* hub::send(packet)
HubSend(packet) ==
    /\ lib' = [lib EXCEPT !.hubop = [op |-> "send", packet |-> packet],
                          !.made = SendFold(1, packet)]
    /\ UNCHANGED <<schedvars, hubvars>>

\* hub::try_receive()
HubTryReceive ==
    /\ LET fold == ReceiveFold(1)
       IN  lib' = [lib EXCEPT
                    !.hubop = [op |-> "try_receive"],
                    !.made = fold.calls,
                    !.returned = fold.result,
                    !.pending = [i \in 1..NumTransports |->
                                    IF \E k \in 1..Len(fold.calls) : fold.calls[k].transport = i
                                    THEN << >> ELSE pending[i]]]
    /\ UNCHANGED <<schedvars, hubvars>>

\* a packet for this board reaches transport i, which holds none
Inject(i, packet) ==
    /\ pending[i] = << >>
    /\ lib' = [lib EXCEPT !.pending[i] = <<packet>>]
    /\ UNCHANGED <<schedvars, hubvars>>

\* hub::hub, its transports holding nothing
HubConstructed ==
    [sender_statuses |-> [i \in 1..NumTransports |-> TRUE],
     receiver_statuses |-> [i \in 1..NumTransports |-> TRUE],
     pending |-> [i \in 1..NumTransports |-> << >>],
     hubop |-> [op |-> "hub"],
     made |-> << >>,
     returned |-> << >>]

HubInit ==
    /\ Quiescent
    /\ stl = "copying"
    /\ lib = HubConstructed

HubNext ==
    \/ \E i \in 1..NumTransports : use_sender(i)
    \/ \E i \in 1..NumTransports : remove_sender(i)
    \/ \E i \in 1..NumTransports : use_receiver(i)
    \/ \E i \in 1..NumTransports : remove_receiver(i)
    \/ \E packet \in HubPackets : HubSend(packet)
    \/ HubTryReceive
    \/ \E i \in 1..NumTransports, packet \in HubPackets : Inject(i, packet)

\* HubSpec: a hub under any sequence of its public operations, packets arriving at
\* its transports in between
HubSpec == HubInit /\ [][HubNext]_vars

(***************************************************************************)
(* The registry and its storage slots on their own (tools/registry.tpp,    *)
(* tools/slot.tpp).  A slot is written [constructed, inst, live]: the      *)
(* _constructed flag, the number of the object last constructed in _mem,   *)
(* and the objects whose constructor has run and whose destructor has not. *)
(* A slot operation gives the slot it leaves, what it returns (an          *)
(* optional) and whether an assert stopped the program.                    *)
(***************************************************************************)
\* the keys task types are declared with, and the keys a caller may look up:
\* the odd ones belong to no type
TypeKeys == {2, 4, 6}
LookupKeys == 1..7

RECURSIVE Distinct(_)
Distinct(s) ==
    IF s = << >> THEN TRUE
    ELSE (\A k \in 1..Len(Tail(s)) : Tail(s)[k] # Head(s)) /\ Distinct(Tail(s))

\* the type lists a registry is instantiated with: some types, each key once
\* (task_manager.hpp:408 rejects a type listed twice)
TypeLists ==
    {t \in UNION {[1..n -> TypeKeys] : n \in 1..Cardinality(TypeKeys)} : Distinct(t)}

EmptySlot == [constructed |-> FALSE, inst |-> 0, live |-> {}]

\* slot<T>::destroy
destroy(slot, checked) ==
    IF ~slot.constructed
    THEN [slot |-> slot, result |-> << >>, aborted |-> checked]
    ELSE [slot |-> [slot EXCEPT !.constructed = FALSE, !.live = @ \ {slot.inst}],
          result |-> << >>, aborted |-> FALSE]

\* slot<T>::emplace
emplace(slot, checked) ==
    LET previous == IF slot.constructed THEN destroy(slot, checked).slot ELSE slot
    IN  [slot |-> [constructed |-> TRUE, inst |-> slot.inst + 1,
                   live |-> previous.live \cup {slot.inst + 1}],
         result |-> <<slot.inst + 1>>, aborted |-> FALSE]

\* slot<T>::construct
construct(slot, checked) ==
    IF checked /\ slot.constructed
    THEN [slot |-> slot, result |-> << >>, aborted |-> TRUE]
    ELSE emplace(slot, checked)

\* slot<T>::get
get(slot) == IF ~slot.constructed THEN << >> ELSE <<slot.inst>>

\* a call on the registry: what it was, the routing-table entry the lookup chose
\* (0: none), what it returned, and whether an assert stopped the program
RegistryCall(op, key, chosen, result, aborted) ==
    [op |-> op, key |-> key, route |-> chosen, result |-> result, aborted |-> aborted]

\* the program is running and the registry has not been destroyed
RegistryAlive == ~regop.aborted /\ regop.op # "~registry"

\* registry::get(key)
RegistryGet(key) ==
    LET chosen == route(registry(declared), key)
    IN  /\ RegistryAlive
        /\ lib' = [lib EXCEPT !.regop =
                        RegistryCall("get", key, chosen,
                                     IF chosen = 0 THEN << >> ELSE get(storage[chosen]), FALSE)]
        /\ UNCHANGED <<schedvars, hubvars>>

\* registry::construct(key, args...)
RegistryConstruct(key) ==
    LET chosen == route(registry(declared), key)
    IN  /\ RegistryAlive
        /\ IF chosen = 0
           THEN lib' = [lib EXCEPT !.regop = RegistryCall("construct", key, 0, << >>, FALSE)]
           ELSE LET made_ == construct(storage[chosen], assertions)
                IN  /\ storage[chosen].inst < MaxInst
                    /\ lib' = [lib EXCEPT
                                !.storage[chosen] = made_.slot,
                                !.regop = RegistryCall("construct", key, chosen,
                                                       made_.result, made_.aborted)]
        /\ UNCHANGED <<schedvars, hubvars>>

\* registry::destroy(key)
RegistryDestroy(key) ==
    LET chosen == route(registry(declared), key)
    IN  /\ RegistryAlive
        /\ IF chosen = 0
           THEN lib' = [lib EXCEPT !.regop = RegistryCall("destroy", key, 0, << >>, FALSE)]
           ELSE LET gone == destroy(storage[chosen], assertions)
                IN  lib' = [lib EXCEPT
                            !.storage[chosen] = gone.slot,
                            !.regop = RegistryCall("destroy", key, chosen, << >>, gone.aborted)]
        /\ UNCHANGED <<schedvars, hubvars>>

\* slot<T>::instance().emplace(args...), called on the slot of the i-th type
Emplace(i) ==
    LET made_ == emplace(storage[i], assertions)
    IN  /\ RegistryAlive
        /\ storage[i].inst < MaxInst
        /\ lib' = [lib EXCEPT
                    !.storage[i] = made_.slot,
                    !.regop = RegistryCall("emplace", declared[i], i, made_.result, made_.aborted)]
        /\ UNCHANGED <<schedvars, hubvars>>

\* registry::~registry : the destructor of every entry, in index-table order
RECURSIVE DestroyAll(_, _, _, _)
DestroyAll(table, pos, slots_, checked) ==
    IF pos > Len(table) THEN [storage |-> slots_, aborted |-> FALSE]
    ELSE LET gone == destroy(slots_[table[pos].index], checked)
         IN  IF gone.aborted THEN [storage |-> slots_, aborted |-> TRUE]
             ELSE DestroyAll(table, pos + 1,
                             [slots_ EXCEPT ![table[pos].index] = gone.slot], checked)

RegistryDestructor ==
    LET swept == DestroyAll(registry(declared), 1, storage, assertions)
    IN  /\ RegistryAlive
        /\ lib' = [lib EXCEPT
                    !.storage = swept.storage,
                    !.regop = RegistryCall("~registry", 0, 0, << >>, swept.aborted)]
        /\ UNCHANGED <<schedvars, hubvars>>

RegistryInit ==
    /\ Quiescent
    /\ stl = "copying"
    /\ \E t \in TypeLists, checked \in BOOLEAN :
            lib = [declared |-> t,
                   storage |-> [i \in 1..Len(t) |-> EmptySlot],
                   regop |-> RegistryCall("registry", 0, 0, << >>, FALSE),
                   assertions |-> checked]

RegistryNext ==
    \/ \E key \in LookupKeys : RegistryGet(key)
    \/ \E key \in LookupKeys : RegistryConstruct(key)
    \/ \E key \in LookupKeys : RegistryDestroy(key)
    \/ \E i \in 1..Len(declared) : Emplace(i)
    \/ RegistryDestructor

\* RegistrySpec: a registry over any list of types with distinct keys, under any
\* sequence of its calls and of emplace on its slots, in either build
RegistrySpec == RegistryInit /\ [][RegistryNext]_vars

(***************************************************************************)
(* compute<sum8>, compute<sum16>, compute<sum32> on their own, over every   *)
(* buffer of up to MaxDataLen bytes drawn from SumBytes.                   *)
(***************************************************************************)
SumPolicies == {"sum8", "sum16", "sum32"}
SumBytes == {0, 1, 255}
Buffers == UNION {[1..n -> SumBytes] : n \in 0..MaxDataLen}

\* compute<ChecksumPolicy>{}(data, size)
Compute ==
    /\ computed = << >>
    /\ lib' = [lib EXCEPT !.computed = <<compute(sum_policy, input)>>]
    /\ UNCHANGED <<schedvars, hubvars>>

SumInit ==
    /\ Quiescent
    /\ stl = "copying"
    /\ lib \in [sum_policy : SumPolicies, input : Buffers, computed : {<< >>}]

SumNext == Compute

\* SumSpec: each sum policy computed once over every buffer
SumSpec == SumInit /\ [][SumNext]_vars

(***************************************************************************)
(* status_code and its classifiers (system/status_code.hpp, .inl).  The    *)
(* classifiers are applied to every byte value, and to every status a      *)
(* call on the scheduler returns.                                          *)
(***************************************************************************)
\* enum status_code : std::uint8_t, the enumerators the scheduler uses
status_codes ==
    [ok |-> 0, task_not_registered |-> 1, task_already_running |-> 2,
     task_already_paused |-> 3, task_already_resumed |-> 4, task_not_running |-> 6,
     task_already_finished |-> 8, task_already_aborted |-> 9, reentrancy_conflict |-> 12,
     channel_null |-> 13, duplicate_task |-> 19, task_unknown |-> 20,
     task_finished |-> 32, task_aborted |-> 33, custom_error_start |-> 112]

is_manager_status(c) == c < 32

\* mutant of is_task_status: the range ends at 0x3F, as the enum's comment has it
MutIsTaskStatusDocumentedRange(c) == c >= 32 /\ c < 64

is_task_status(c) == c >= 32 /\ c < status_codes.custom_error_start
is_custom_status(c) == c >= 112

\* the three classifiers called on one status byte
Classified(c) ==
    [status_byte |-> c,
     verdict |-> <<[manager |-> is_manager_status(c),
                    task |-> is_task_status(c),
                    custom |-> is_custom_status(c)]>>]

\* a byte from anywhere is classified
Classify ==
    /\ verdict = << >>
    /\ lib' = Classified(status_byte)
    /\ UNCHANGED <<schedvars, hubvars>>

\* a call on the scheduler, the caller classifying the status it returned
ClassifyReturned ==
    /\ \/ \E caller \in Callers, uid \in UidSpace :
            /\ RegisterTask(caller[1], caller[2], uid)
            /\ last' = Call("register_task", uid, caller[1], caller[2],
                            RegisterStatus(caller[1], uid))
       \/ \E uid \in UidSpace :
            /\ PauseTask(uid)
            /\ last' = Call("pause_task", uid, NullChannel, 0, PauseStatus(uid))
       \/ \E uid \in UidSpace :
            /\ ResumeTask(uid)
            /\ last' = Call("resume_task", uid, NullChannel, 0, ResumeStatus(uid))
       \/ \E uid \in UidSpace :
            /\ AbortTask(uid)
            /\ last' = Call("abort_task", uid, NullChannel, 0, AbortStatus(uid))
    /\ lib' = Classified(status_codes[last'.ret])
    /\ UNCHANGED hubvars

\* update() between the calls
StatusUpdate ==
    /\ ticks < MaxApiTicks
    /\ Update
    /\ UNCHANGED <<last, hubvars, lib>>

StatusInit ==
    /\ Quiescent
    /\ stl = "copying"
    /\ lib \in [status_byte : 0..255, verdict : {<< >>}]

StatusNext ==
    \/ Classify
    \/ ClassifyReturned
    \/ StatusUpdate

\* StatusSpec: every byte value classified, and every status the scheduler's
\* calls return
StatusSpec == StatusInit /\ [][StatusNext]_vars

(***************************************************************************)
(* A state object under its mutators.  They return *this, so calls chain   *)
(* (state.set_running().set_started()); MaxChain bounds the chain.         *)
(***************************************************************************)
MaxChain == 2

Mutators == {"set_paused", "set_resumed", "set_started", "set_aborted", "set_running", "set_idle"}

Mutate(m) ==
    /\ Len(chain) < MaxChain
    /\ lib' = [flag_state |-> CASE m = "set_paused"  -> set_paused(flag_state)
                                 [] m = "set_resumed" -> set_resumed(flag_state)
                                 [] m = "set_started" -> set_started(flag_state)
                                 [] m = "set_aborted" -> set_aborted(flag_state)
                                 [] m = "set_running" -> set_running(flag_state)
                                 [] m = "set_idle"    -> set_idle(flag_state),
               chain |-> Append(chain, m)]
    /\ UNCHANGED <<schedvars, hubvars>>

StateInit ==
    /\ Quiescent
    /\ stl = "copying"
    /\ lib \in [flag_state : SUBSET Flags, chain : {<< >>}]

StateNext == \E m \in Mutators : Mutate(m)

\* StateSpec: one state object, from every combination of flags, under chains
\* of its mutators
StateSpec == StateInit /\ [][StateNext]_vars

(***************************************************************************)
(* update() one record at a time, so that user code running in a hook or   *)
(* in channel.on_result can call back into the scheduler.  A call is made  *)
(* where the hook is the last statement of its branch (on_execute) or is   *)
(* followed by _garbage.set(i) only (on_result).                           *)
(***************************************************************************)
NotUpdating == [cursor |-> 0, marked |-> {}, inside |-> "none"]

\* update() is entered: _garbage.reset(), i = 0
EnterUpdate ==
    /\ cursor = 0
    /\ ticks < MaxApiTicks
    /\ lib' = [cursor |-> 1, marked |-> {}, inside |-> "none"]
    /\ UNCHANGED <<schedvars, hubvars>>

\* one turn of the for loop
VisitNext ==
    /\ cursor >= 1
    /\ cursor <= Len(tasks)
    /\ \E decide \in BOOLEAN :
         LET ctx0 == [tasks |-> tasks, hooks |-> hooks, results |-> results,
                      finished |-> finished, garbage |-> marked]
             ctx == VisitRecord(ctx0, cursor, decide)
             u == tasks[cursor].uid
         IN  /\ tasks' = ctx.tasks
             /\ hooks' = ctx.hooks
             /\ results' = ctx.results
             /\ finished' = ctx.finished
             /\ lib' = [cursor |-> cursor + 1, marked |-> ctx.garbage,
                        inside |-> IF (cursor - 1) \in ctx.garbage THEN "on_result"
                                   ELSE ctx.hooks[u][Len(ctx.hooks[u])].h]
    /\ UNCHANGED <<slots, ticks, last, stl, hubvars>>

\* the loop is over: the compaction
LeaveUpdate ==
    /\ cursor > Len(tasks)
    /\ tasks' = RemoveIf(tasks, marked, stl = "copying")
    /\ ticks' = ticks + 1
    /\ lib' = NotUpdating
    /\ UNCHANGED <<slots, finished, hooks, results, last, stl, hubvars>>

\* a public call made by the application between two update() calls, what it
\* returns not kept
CallBetween ==
    /\ cursor = 0
    /\ \/ \E caller \in Callers, uid \in UidSpace : RegisterTask(caller[1], caller[2], uid)
       \/ \E uid \in UidSpace : PauseTask(uid)
       \/ \E uid \in UidSpace : ResumeTask(uid)
       \/ \E uid \in UidSpace : AbortTask(uid)
    /\ UNCHANGED <<last, hubvars, lib>>

\* TickSpec: the scheduler with update() seen one loop turn at a time, under
\* public calls made between updates only
TickInit ==
    /\ Quiescent
    /\ stl \in {"by_reference", "copying"}
    /\ lib = NotUpdating

TickNext ==
    \/ EnterUpdate
    \/ VisitNext
    \/ LeaveUpdate
    \/ CallBetween

TickSpec == TickInit /\ [][TickNext]_vars

\* the same call with its arguments and status kept in `last`
CallOutside ==
    /\ cursor = 0
    /\ \/ \E caller \in Callers, uid \in UidSpace : CallRegisterTask(caller[1], caller[2], uid)
       \/ \E uid \in UidSpace : CallPauseTask(uid)
       \/ \E uid \in UidSpace : CallResumeTask(uid)
       \/ \E uid \in UidSpace : CallAbortTask(uid)

\* a public call made from on_execute or from channel.on_result of the record
\* the running update() has just visited
CallFromHook ==
    /\ cursor > 1
    /\ inside \in {"on_execute", "on_result"}
    /\ \/ \E caller \in Callers, uid \in UidSpace : CallRegisterTask(caller[1], caller[2], uid)
       \/ \E uid \in UidSpace : CallPauseTask(uid)
       \/ \E uid \in UidSpace : CallResumeTask(uid)
       \/ \E uid \in UidSpace : CallAbortTask(uid)

ReentryInit ==
    /\ Quiescent
    /\ stl \in {"by_reference", "copying"}
    /\ lib = NotUpdating

ReentryNext ==
    \/ EnterUpdate
    \/ VisitNext
    \/ LeaveUpdate
    \/ CallOutside
    \/ CallFromHook

\* ReentrySpec: the scheduler under public calls made between updates and from
\* inside the hooks of a running update
ReentrySpec == ReentryInit /\ [][ReentryNext]_vars

(***************************************************************************)
(* Vocabulary of the properties below.  They read the raw state, not the   *)
(* operators that model the code.                                          *)
(***************************************************************************)
\* a record with this uid is in the task list
Live(u) == \E k \in 1..Len(tasks) : tasks[k].uid = u
LiveNext(u) == \E k \in 1..Len(tasks') : tasks'[k].uid = u

\* the (first) record with this uid
Rec(u) == tasks[CHOOSE k \in 1..Len(tasks) : tasks[k].uid = u]
RecNext(u) == tasks'[CHOOSE k \in 1..Len(tasks') : tasks'[k].uid = u]

Count(log, name) == Cardinality({k \in 1..Len(log) : log[k].h = name})

\* this step is one update() call
IsUpdateStep == ticks' = ticks + 1

\* the hooks this step called on the task with this uid
NewHooks(u) == SubSeq(hooks'[u], Len(hooks[u]) + 1, Len(hooks'[u]))

\* the on_result call that hands over what on_complete(interrupted) returned
Delivery(r, interrupted) ==
    [channel |-> r.channel, initiator_id |-> r.initiator_id, uid |-> r.uid,
     envelope |-> OnCompleteResult(r.uid, interrupted).envelope,
     status |-> OnCompleteResult(r.uid, interrupted).status]

\* the task type whose is_finished() never returns true
NeverFinishing == {1}

(***************************************************************************)
(* C1: for every task, on_start is called exactly once and before any      *)
(* other hook, and on_complete is called exactly once and after all other  *)
(* hooks: the hook log of a task starts with on_start, holds it once, and  *)
(* holds on_complete at most once and only as its last entry.              *)
(***************************************************************************)
C1_StartFirstCompleteLast ==
    \A u \in RegisteredUids :
        LET log == hooks[u]
        IN  /\ log # << >> => log[1].h = "on_start"
            /\ Count(log, "on_start") <= 1
            /\ Count(log, "on_complete") <= 1
            /\ \A k \in 1..Len(log) : log[k].h = "on_complete" => k = Len(log)

(***************************************************************************)
(* C2: a never-finishing task that has ticked at least once can be paused: *)
(* pause_task returns ok for it (unless it is aborted or already paused),  *)
(* the next update calls on_pause exactly once, and the updates after that *)
(* call no hook on it while it stays paused (it is dormant).               *)
(***************************************************************************)
C2_PauseThenDormant ==
    [][\A u \in NeverFinishing :
        /\ ( /\ last'.op = "pause_task" /\ last'.uid = u
             /\ Live(u) /\ hooks[u] # << >>
             /\ ~is_aborted(Rec(u).state) /\ ~is_paused(Rec(u).state) )
           => (last'.ret = "ok" /\ LiveNext(u) /\ is_paused(RecNext(u).state))
        /\ ( /\ IsUpdateStep /\ Live(u)
             /\ is_paused(Rec(u).state) /\ ~is_aborted(Rec(u).state) )
           => NewHooks(u) = IF is_running(Rec(u).state)
                            THEN <<Hook("on_pause", FALSE)>>
                            ELSE << >>
      ]_vars

(***************************************************************************)
(* C3: an aborted record stays in the list until the next update; that     *)
(* update calls on_complete(true) on it exactly once, calls no on_execute, *)
(* on_pause or on_resume on it, delivers the result on the record's        *)
(* channel, and removes the record.                                        *)
(***************************************************************************)
C3_AbortReapedByNextUpdate ==
    [][\A u \in RegisteredUids :
        /\ (~IsUpdateStep /\ Live(u)) => LiveNext(u)
        /\ (IsUpdateStep /\ Live(u) /\ is_aborted(Rec(u).state)) =>
              /\ Count(NewHooks(u), "on_complete") = 1
              /\ \A k \in 1..Len(NewHooks(u)) :
                    /\ NewHooks(u)[k].h \notin {"on_execute", "on_pause", "on_resume"}
                    /\ NewHooks(u)[k].h = "on_complete" => NewHooks(u)[k].interrupted
              /\ results'[u] = Append(results[u], Delivery(Rec(u), TRUE))
              /\ ~LiveNext(u)
      ]_vars

(***************************************************************************)
(* C4: channel.on_result is called at most once per registered task, only  *)
(* in the update in which the task terminates, on the record's channel and *)
(* with the record's initiator_id and uid and what on_complete returned.   *)
(***************************************************************************)
C4_ResultDeliveredOnce ==
    [][\A u \in RegisteredUids :
        results'[u] # results[u] =>
            \/ ~IsUpdateStep /\ results'[u] = << >>      \* a new instance is registered
            \/ /\ IsUpdateStep
               /\ Live(u)
               /\ results[u] = << >>
               /\ Len(NewHooks(u)) > 0
               /\ LET done == NewHooks(u)[Len(NewHooks(u))]
                  IN  /\ done.h = "on_complete"
                      /\ results'[u] = <<Delivery(Rec(u), done.interrupted)>>
      ]_vars

(***************************************************************************)
(* C5: a task whose is_finished() is true at the first check starts and    *)
(* completes in one update: on_start once, then on_complete(false) once,   *)
(* no on_execute, the result delivered, the record removed.                *)
(***************************************************************************)
C5_SingleShotInOneUpdate ==
    [][\A u \in RegisteredUids :
        ( /\ IsUpdateStep /\ Live(u)
          /\ hooks[u] = << >> /\ finished[u] /\ ~is_aborted(Rec(u).state) )
        => /\ NewHooks(u) = <<Hook("on_start", FALSE), Hook("on_complete", FALSE)>>
           /\ results'[u] = <<Delivery(Rec(u), FALSE)>>
           /\ ~LiveNext(u)
      ]_vars

(***************************************************************************)
(* C7: register_task returns the first matching of: null channel ->        *)
(* channel_null; a live record with the uid -> duplicate_task; uid not in  *)
(* the registry -> task_unknown; otherwise ok, appending one record that   *)
(* is idle only and carries the given initiator_id, uid and channel.  A    *)
(* rejected call appends nothing.                                          *)
(***************************************************************************)
RegisterExpected(origin, uid) ==
    IF origin = NullChannel THEN "channel_null"
    ELSE IF Live(uid) THEN "duplicate_task"
    ELSE IF uid \notin RegisteredUids THEN "task_unknown"
    ELSE "ok"

C7_RegisterOutcome ==
    [][last'.op = "register_task" =>
        LET want == RegisterExpected(last'.origin, last'.uid)
        IN  /\ last'.ret = want
            /\ want # "ok" => tasks' = tasks
            /\ want = "ok" =>
                  /\ Len(tasks') = Len(tasks) + 1
                  /\ SubSeq(tasks', 1, Len(tasks)) = tasks
                  /\ LET r == tasks'[Len(tasks')]
                     IN  /\ r.state = {"idle"}
                         /\ r.uid = last'.uid
                         /\ r.initiator_id = last'.initiator_id
                         /\ r.channel = last'.origin
      ]_vars

(***************************************************************************)
(* C8: register_task with a uid that has a live record returns             *)
(* duplicate_task and changes nothing: not the task list, not a flag, not  *)
(* the registry slot, and no hook is called.                               *)
(***************************************************************************)
C8_DuplicateChangesNothing ==
    [][( /\ last'.op = "register_task"
         /\ last'.origin # NullChannel
         /\ Live(last'.uid) )
       => /\ last'.ret = "duplicate_task"
          /\ UNCHANGED <<tasks, slots, finished, hooks, results>>
      ]_vars

\* a duplicate registration was just rejected while the first instance is live and has run
C8_Witness ==
    /\ last.op = "register_task"
    /\ last.ret = "duplicate_task"
    /\ Live(last.uid)
    /\ slots[last.uid].constructed
    /\ hooks[last.uid] # << >>

(***************************************************************************)
(* C9: in every reachable state the records of the task list have          *)
(* pairwise distinct uids.                                                 *)
(***************************************************************************)
C9_DistinctUids ==
    \A j, k \in 1..Len(tasks) : j # k => tasks[j].uid # tasks[k].uid

\* three records are live after an update, and one uid has been registered twice
C9_Witness ==
    /\ Len(tasks) = Len(TaskTypes)
    /\ ticks > 0
    /\ \E u \in RegisteredUids : slots[u].inst > 1

(***************************************************************************)
(* C10: pause_task returns, in this order of precedence,                   *)
(* task_not_registered if no live record has the uid, task_already_finished*)
(* if the task is finished, task_already_aborted if it is aborted,         *)
(* task_already_paused if it is paused, task_not_running if it was never   *)
(* started, and otherwise ok, setting the paused flag of that record.      *)
(***************************************************************************)
PauseExpected(uid) ==
    IF ~Live(uid) THEN "task_not_registered"
    ELSE IF finished[uid] THEN "task_already_finished"
    ELSE IF "aborted" \in Rec(uid).state THEN "task_already_aborted"
    ELSE IF "paused" \in Rec(uid).state THEN "task_already_paused"
    ELSE IF "started" \notin Rec(uid).state THEN "task_not_running"
    ELSE "ok"

C10_PauseOutcome ==
    [][last'.op = "pause_task" =>
        /\ last'.ret = PauseExpected(last'.uid)
        /\ PauseExpected(last'.uid) = "ok" =>
              (LiveNext(last'.uid) /\ "paused" \in RecNext(last'.uid).state)
      ]_vars

\* pause_task was just refused on a live, unfinished, unaborted task that has ticked
C10_Witness ==
    /\ last.op = "pause_task"
    /\ last.ret = "task_not_running"
    /\ Live(last.uid)
    /\ hooks[last.uid] # << >>

(***************************************************************************)
(* C11: pause_task on a live record that abort_task has marked aborted     *)
(* returns task_already_aborted, whatever else holds of the task (its      *)
(* is_finished() may return true, it may be paused).                       *)
(***************************************************************************)
C11_PauseOnAbortedSaysAborted ==
    [][( /\ last'.op = "pause_task"
         /\ Live(last'.uid)
         /\ "aborted" \in Rec(last'.uid).state )
       => last'.ret = "task_already_aborted"
      ]_vars

(***************************************************************************)
(* C12: resume_task returns, in this order of precedence,                  *)
(* task_not_registered if no live record has the uid, task_already_finished*)
(* if the task is finished, task_already_aborted if it is aborted,         *)
(* task_already_running if it is running, task_already_resumed if it is    *)
(* marked resumed, and otherwise ok, setting the resumed flag of that      *)
(* record.                                                                 *)
(***************************************************************************)
ResumeExpected(uid) ==
    IF ~Live(uid) THEN "task_not_registered"
    ELSE IF finished[uid] THEN "task_already_finished"
    ELSE IF "aborted" \in Rec(uid).state THEN "task_already_aborted"
    ELSE IF "running" \in Rec(uid).state THEN "task_already_running"
    ELSE IF "resumed" \in Rec(uid).state THEN "task_already_resumed"
    ELSE "ok"

C12_ResumeOutcome ==
    [][last'.op = "resume_task" =>
        /\ last'.ret = ResumeExpected(last'.uid)
        /\ ResumeExpected(last'.uid) = "ok" =>
              (LiveNext(last'.uid) /\ "resumed" \in RecNext(last'.uid).state)
      ]_vars

\* resume_task was just refused on a live, unfinished, unaborted task that has ticked
C12_Witness ==
    /\ last.op = "resume_task"
    /\ last.ret = "task_already_running"
    /\ Live(last.uid)
    /\ ~finished[last.uid]
    /\ hooks[last.uid] # << >>

(***************************************************************************)
(* C13: resume_task returns ok only for a live record whose paused flag is *)
(* set, and marks no other record resumed; for a record that was           *)
(* registered and never paused it does not return ok.                      *)
(***************************************************************************)
C13_ResumeOnlyIfPaused ==
    [][last'.op = "resume_task" =>
        /\ last'.ret = "ok" => (Live(last'.uid) /\ "paused" \in Rec(last'.uid).state)
        /\ \A k \in 1..Len(tasks) :
              "paused" \notin tasks[k].state =>
                  (k <= Len(tasks') /\ "resumed" \notin tasks'[k].state)
      ]_vars

\* resume_task was just called on a task registered, never paused and not yet updated
C13_Witness ==
    /\ last.op = "resume_task"
    /\ last.ret # "ok"
    /\ Live(last.uid)
    /\ ~finished[last.uid]
    /\ hooks[last.uid] = << >>
    /\ Rec(last.uid).state \cap {"paused", "aborted", "resumed"} = {}

(***************************************************************************)
(* C14: abort_task returns task_not_registered if no live record has the   *)
(* uid, task_already_finished if the task is finished,                     *)
(* task_already_aborted if it is already aborted, and otherwise ok,        *)
(* setting the aborted flag.  The aborted flag is sticky: no step clears   *)
(* it on a record that stays in the list.                                  *)
(***************************************************************************)
AbortExpected(uid) ==
    IF ~Live(uid) THEN "task_not_registered"
    ELSE IF finished[uid] THEN "task_already_finished"
    ELSE IF "aborted" \in Rec(uid).state THEN "task_already_aborted"
    ELSE "ok"

C14_AbortOutcomeSticky ==
    [][/\ last'.op = "abort_task" =>
            /\ last'.ret = AbortExpected(last'.uid)
            /\ AbortExpected(last'.uid) = "ok" =>
                  (LiveNext(last'.uid) /\ "aborted" \in RecNext(last'.uid).state)
       /\ \A k \in 1..Len(tasks) :
            "aborted" \in tasks[k].state =>
                \A j \in 1..Len(tasks') :
                    (tasks'[j].uid = tasks[k].uid /\ tasks'[j].inst = tasks[k].inst)
                    => "aborted" \in tasks'[j].state
      ]_vars

\* abort_task was just accepted while another record, aborted earlier, is still aborted
C14_Witness ==
    /\ last.op = "abort_task"
    /\ last.ret = "ok"
    /\ Live(last.uid)
    /\ \E k \in 1..Len(tasks) :
          tasks[k].uid # last.uid /\ "aborted" \in tasks[k].state
    /\ \A k \in 1..Len(tasks) :
          tasks[k].uid = last.uid => "aborted" \in tasks[k].state

(***************************************************************************)
(* C15: a register_task, pause_task, resume_task or abort_task call that   *)
(* returns a status other than ok calls channel.on_result on nothing,      *)
(* changes no flag of any record and adds or removes no record; an         *)
(* accepted pause_task, resume_task or abort_task changes only the state   *)
(* of the record with the given uid.                                       *)
(***************************************************************************)
ControlOps == {"pause_task", "resume_task", "abort_task"}

C15_ErrorsOnlyReturned ==
    [][/\ (last'.op \in ControlOps \cup {"register_task"} /\ last'.ret # "ok")
          => (tasks' = tasks /\ results' = results /\ hooks' = hooks)
       /\ (last'.op \in ControlOps /\ last'.ret = "ok")
          => /\ results' = results
             /\ Len(tasks') = Len(tasks)
             /\ \A k \in 1..Len(tasks) :
                   IF tasks[k].uid = last'.uid
                   THEN [tasks'[k] EXCEPT !.state = {}] = [tasks[k] EXCEPT !.state = {}]
                   ELSE tasks'[k] = tasks[k]
      ]_vars

\* a control call was just refused on a live record while other records are live and
\* a result has been delivered before
C15_Witness ==
    /\ last.op \in ControlOps
    /\ last.ret # "ok"
    /\ Live(last.uid)
    /\ Len(tasks) >= 2
    /\ \E u \in RegisteredUids : results[u] # << >>

(***************************************************************************)
(* C17: for each packet the bridge update obtained from the hub, built by  *)
(* its sender with flags F: F = none makes the bridge invoke exactly one   *)
(* register_task(bridge, sender_id, task_id, view over the payload),       *)
(* F = abort exactly one abort_task(task_id), F = pause exactly one        *)
(* pause_task(task_id), F = resume exactly one resume_task(task_id), and   *)
(* nothing else.                                                           *)
(***************************************************************************)
C17_FlagsSelectOperation ==
    rx # << >> =>
        LET f == rx[1].built_with
            p == rx[1].packet
        IN  /\ f = "none" =>
                 /\ Len(ops) = 1
                 /\ ops[1].call.op = "register_task"
                 /\ ops[1].call.origin = "bridge"
                 /\ ops[1].call.initiator_id = p.header.sender_id
                 /\ ops[1].call.uid = p.task_id
                 /\ ops[1].params = p.payload
            /\ f \in {"abort", "pause", "resume"} =>
                 /\ Len(ops) = 1
                 /\ ops[1].call.op = f \o "_task"
                 /\ ops[1].call.uid = p.task_id

(***************************************************************************)
(* C18: a received packet whose flags are none of none, abort, pause and   *)
(* resume is ignored by the bridge update: no scheduler operation is       *)
(* invoked, the scheduler state is unchanged and no packet is handed to    *)
(* the hub.                                                                *)
(***************************************************************************)
C18_OtherFlagsIgnored ==
    [][( /\ rx' # << >>
         /\ rx'[1].built_with \notin {"none", "abort", "pause", "resume"} )
       => /\ ops' = << >>
          /\ sent' = << >>
          /\ UNCHANGED <<tasks, slots, finished, hooks, results>>
      ]_vars

(***************************************************************************)
(* C19: when the scheduler operation the bridge update dispatched returned *)
(* a status other than ok, the bridge handed exactly one packet to the     *)
(* hub: receiver_id the command's sender_id, flags error, task_id the      *)
(* command's uid, status the returned code, payload all zero; when it      *)
(* returned ok the bridge update handed no packet to the hub.              *)
(***************************************************************************)
C19_ErrorReplyPacket ==
    (rx # << >> /\ ops # << >>) =>
        LET ret == ops[1].call.ret
            p == rx[1].packet
        IN  IF ret = "ok" THEN sent = << >>
            ELSE /\ Len(sent) = 1
                 /\ sent[1].header.receiver_id = p.header.sender_id
                 /\ sent[1].header.flags = header_flags.error
                 /\ sent[1].task_id = p.task_id
                 /\ sent[1].status = ret
                 /\ \A k \in DOMAIN sent[1].payload : sent[1].payload[k] = 0

\* the bridge just answered a refused command of device 9 with one packet
C19_Witness ==
    /\ rx # << >>
    /\ rx[1].packet.header.sender_id = 9
    /\ ops # << >>
    /\ ops[1].call.ret = "duplicate_task"
    /\ Len(sent) = 1

(***************************************************************************)
(* C20: for every on_result(iid, uid, env, code) call the bridge hands     *)
(* exactly one packet to the hub: type data, flags none, receiver_id iid,  *)
(* task_id uid, status code, payload the first min(Len(env), PayloadSize)  *)
(* bytes of env followed by zeros; nothing is written outside the payload  *)
(* field.                                                                  *)
(***************************************************************************)
\* the on_result calls this step made on the bridge, in the order of the records
RECURSIVE NewBridgeResults(_)
NewBridgeResults(i) ==
    IF i > Len(tasks) THEN << >>
    ELSE LET u == tasks[i].uid
         IN  (IF Len(results'[u]) > Len(results[u]) /\ tasks[i].channel = "bridge"
              THEN <<results'[u][Len(results'[u])]>>
              ELSE << >>) \o NewBridgeResults(i + 1)

C20_ResultPacket ==
    [][IsUpdateStep =>
        LET calls == NewBridgeResults(1)
        IN  /\ fault' = "none"
            /\ Len(sent') = Len(calls)
            /\ \A k \in 1..Len(calls) :
                  k <= Len(sent') =>
                     /\ sent'[k].header.type = "data"
                     /\ sent'[k].header.flags = header_flags.none
                     /\ sent'[k].header.receiver_id = calls[k].initiator_id
                     /\ sent'[k].task_id = calls[k].uid
                     /\ sent'[k].status = calls[k].status
                     /\ sent'[k].payload =
                           [j \in 1..PayloadSize |->
                               IF j <= Len(calls[k].envelope)
                               THEN calls[k].envelope[j] ELSE 0]
      ]_vars

\* C22: a packet_header built by either constructor, from any raw value or
\* any field values, reads back version() = ETASK_PROTOCOL_VERSION and
\* sender_id() = ETASK_BOARD_ID.
C22_VersionAndSenderPinned ==
    hdr # << >> =>
        /\ version(hdr[1]) = ProtocolVersion
        /\ sender_id(hdr[1]) = BoardId

\* C23: a header built from an admissible field tuple (a header_type, the
\* three booleans and reserved, a priority in 0..7, flags among none, ack,
\* error, heartbeat, abort, pause, resume, any receiver_id) reads back the
\* same tuple.
C23_FieldsRoundTrip ==
    (/\ hdr # << >>
     /\ args.ctor = "fields"
     /\ args.priority \in 0..7
     /\ args.flags \in {header_flags[f] : f \in CommandFlags})
    => ReadBack(hdr[1]) = [k \in DOMAIN ReadBack(hdr[1]) |-> args[k]]

\* the bytes of the one packet on its way, wherever they are
InFlight == inbox \o line
\* the covered range of the packet on the link: everything but the fcs
CoveredBits == 1..(8 * (packet_size(pkt.packet) - PolicySize(checksum_policy)))
\* a whole packet is waiting in the receive buffer
FullRead == Len(inbox) >= packet_size(pkt.packet)
Waiting == Parse(Prefix(inbox, packet_size(pkt.packet)), PolicySize(checksum_policy))
\* the poll took a packet out of the receive buffer
Consumed == Len(inbox') < Len(inbox)

\* C21: the transport's try_receive returns a packet only if a full packet
\* was read, it is addressed to this board and its fcs is the checksum of
\* its covered bytes, and then returns that packet; an intact packet
\* addressed to this board is returned; in every other case it returns
\* none, the bridge invokes no scheduler operation, the scheduler state is
\* unchanged and no packet (so no error reply) is handed to the hub.
C21_TransportFilters ==
    [][ /\ got' # << >> =>
            /\ FullRead
            /\ got' = <<Waiting>>
            /\ Waiting.header.receiver_id = BoardId
            /\ Waiting.fcs = compute(checksum_policy,
                                     Prefix(Image(Waiting), Len(Image(Waiting)) - Len(Waiting.fcs)))
        /\ (Consumed /\ damage = 0 /\ pkt.packet.header.receiver_id = BoardId) =>
            /\ got' = <<pkt.packet>>
            /\ rx' # << >>
        /\ got' = << >> =>
            /\ rx' = << >>
            /\ ops' = << >>
            /\ sent' = << >>
            /\ UNCHANGED <<tasks, slots, finished, hooks, results>>
      ]_vars

\* C21 witness: an intact packet addressed to another board was read in full
\* and dropped.
C21_Witness ==
    /\ phase = "arrived"
    /\ inbox = << >>
    /\ damage = 0
    /\ pkt.packet.header.receiver_id # BoardId
    /\ got = << >>

\* C24: for every policy and every content of the packet, a step that seals
\* the packet (validator.seal alone, or interface send) leaves a packet that
\* is_valid accepts and that differs from the packet before in nothing but
\* its fcs field.
C24_SealThenValid ==
    [][ (phase = "built" /\ (pkt' # pkt \/ phase' = "sent")) =>
            /\ is_valid(pkt'.packet, checksum_policy)
            /\ pkt'.built_with = pkt.built_with
            /\ \A field \in DOMAIN pkt.packet \ {"fcs"} : pkt'.packet[field] = pkt.packet[field]
      ]_vars

\* C24 witness: a packet whose fcs field held something else has been sealed.
C24_Witness ==
    /\ phase = "built"
    /\ pkt.packet.fcs \notin Garbage(checksum_policy)
    /\ is_valid(pkt.packet, checksum_policy)

\* C25: under a CRC policy, once a single bit of the covered range of the
\* sealed packet has been flipped, is_valid rejects the packet and the
\* transport's try_receive never returns it.
C25_CrcDetectsBitFlip ==
    (checksum_policy \in CrcPolicies /\ damage \in CoveredBits) =>
        /\ Len(InFlight) = packet_size(pkt.packet) =>
              ~is_valid(Parse(InFlight, PolicySize(checksum_policy)), checksum_policy)
        /\ got = << >>

\* C25 witness: under a CRC policy a packet addressed to this board, with one
\* bit of its covered range flipped, has been read in full by a poll.
C25_Witness ==
    /\ checksum_policy \in CrcPolicies
    /\ damage \in CoveredBits
    /\ pkt.packet.header.receiver_id = BoardId
    /\ phase = "arrived"
    /\ inbox = << >>

\* the transports on which the step's hub operation called op, in call order
CalledNext(op) ==
    LET RECURSIVE Pick(_)
        Pick(k) == IF k > Len(made') THEN << >>
                   ELSE (IF made'[k].op = op THEN <<made'[k].transport>> ELSE << >>)
                        \o Pick(k + 1)
    IN  Pick(1)
Increasing(s) == \A k \in 1..(Len(s) - 1) : s[k] < s[k + 1]
Range(s) == {s[k] : k \in 1..Len(s)}
\* no packet reached a transport in the step
NothingArrived == \A i \in 1..NumTransports : pending'[i] # << >> => pending'[i] = pending[i]
\* the transports enabled for receiving that hold a packet
Ready == {i \in 1..NumTransports : receiver_statuses[i] /\ pending[i] # << >>}
FirstReady == CHOOSE i \in Ready : \A j \in Ready : i <= j

\* C26: hub.send(p) calls Ti.send(p) once on every transport whose sender
\* bit is set, on no transport whose sender bit is clear, in registration
\* order, and calls nothing else.
C26_SendFanOut ==
    [][ (hubop'.op = "send" /\ (hubop' # hubop \/ made' # made)) =>
            /\ \A k \in 1..Len(made') :
                    made'[k].op = "send" /\ made'[k].packet = <<hubop'.packet>>
            /\ Increasing(CalledNext("send"))
            /\ Range(CalledNext("send")) = {i \in 1..NumTransports : sender_statuses[i]}
      ]_vars

\* C26 witness: a send went to the first and the last transport and skipped
\* a disabled one between them.
C26_Witness ==
    /\ hubop.op = "send"
    /\ Len(made) = 2
    /\ made[1].transport = 1
    /\ made[2].transport = NumTransports
    /\ ~sender_statuses[2]

\* C27: hub.try_receive calls try_receive on the transports enabled for
\* receiving in registration order, on none whose receiver bit is clear, up
\* to and including the first that yields a packet and on none after it,
\* and returns that packet; it returns none exactly when no enabled
\* transport yields a packet.
C27_ReceiveFirstEnabled ==
    [][ (hubop'.op = "try_receive" /\ NothingArrived) =>
            /\ \A k \in 1..Len(made') : made'[k].op = "try_receive"
            /\ Increasing(CalledNext("try_receive"))
            /\ IF Ready = {}
               THEN /\ returned' = << >>
                    /\ Range(CalledNext("try_receive")) =
                            {i \in 1..NumTransports : receiver_statuses[i]}
               ELSE /\ returned' = pending[FirstReady]
                    /\ Range(CalledNext("try_receive")) =
                            {i \in 1..FirstReady : receiver_statuses[i]}
                    /\ pending'[FirstReady] = << >>
                    /\ \A i \in 1..NumTransports : i # FirstReady => pending'[i] = pending[i]
      ]_vars

\* C27 witness: the first transport held a packet but was disabled for
\* receiving, and the poll returned the packet of a later one.
C27_Witness ==
    /\ hubop.op = "try_receive"
    /\ returned # << >>
    /\ ~receiver_statuses[1]
    /\ pending[1] # << >>
    /\ pending[1] # returned
    /\ Len(made) = 2

LinearScan(types, key) ==
    IF \E k \in 1..Len(types) : types[k] = key
    THEN CHOOSE k \in 1..Len(types) :
            types[k] = key /\ \A j \in 1..(k - 1) : types[j] # key
    ELSE 0

\* C29: every registry call (get, construct, destroy) selects, for its key, the
\* routing-table entry a linear scan over the declared types selects, and
\* touches no other slot; for a key that belongs to no declared type it
\* returns null and constructs or destroys nothing.
C29_LookupMatchesLinearScan ==
    [][ (regop' # regop /\ regop'.op \in {"get", "construct", "destroy"}) =>
            LET scanned == LinearScan(declared, regop'.key)
            IN  /\ regop'.route = scanned
                /\ \A i \in 1..Len(declared) : i # scanned => storage'[i] = storage[i]
                /\ (regop'.op = "get" /\ scanned # 0 /\ storage[scanned].constructed) =>
                        regop'.result = <<storage[scanned].inst>>
                /\ scanned = 0 =>
                        /\ regop'.result = << >>
                        /\ ~regop'.aborted
                        /\ storage' = storage
      ]_vars

\* C29 witness: with the types declared in the order 6, 2, 4, construct(2)
\* chose the second routing-table entry, the first of the sorted index table,
\* and built the first object of that slot.
C29_Witness ==
    /\ declared = <<6, 2, 4>>
    /\ regop = RegistryCall("construct", 2, 2, <<1>>, FALSE)
    /\ storage[2].constructed
    /\ ~storage[1].constructed /\ ~storage[3].constructed

\* the slot a call on the registry or on a slot addressed, 0 when none
Addressed(call) == IF call.op \in {"get", "construct", "destroy", "emplace"} THEN call.route ELSE 0

\* C30: a slot never holds more than one live instance; make (construct) or
\* emplace leaves the slot constructed with the new instance as its only live
\* one, whether the slot was empty or constructed before (the previous
\* instance destroyed first); destroy leaves the slot empty with no live
\* instance; get returns the instance exactly when the flag is set.
C30_SlotContract ==
    /\ [](\A i \in 1..Len(declared) : Cardinality(storage[i].live) <= 1)
    /\ [][ (regop' # regop /\ Addressed(regop') # 0) =>
            LET i == Addressed(regop')
            IN  /\ regop'.op \in {"construct", "emplace"} =>
                    /\ storage'[i].constructed
                    /\ storage'[i].live = {storage[i].inst + 1}
                    /\ regop'.result = <<storage[i].inst + 1>>
                /\ regop'.op = "destroy" =>
                    /\ ~storage'[i].constructed
                    /\ storage'[i].live = {}
                /\ regop'.op = "get" =>
                    /\ (regop'.result # << >>) = storage[i].constructed
                    /\ storage[i].constructed => regop'.result = <<storage[i].inst>>
         ]_vars

\* C30 witness: in a build with assertions, construct on a slot that already
\* held its first instance stopped the program; that instance is still the
\* live one and no second one was constructed.
C30_Witness ==
    /\ assertions
    /\ regop.op = "construct"
    /\ regop.aborted
    /\ storage[regop.route] = [constructed |-> TRUE, inst |-> 1, live |-> {1}]

\* the sum of the bytes of a buffer, as a number
RECURSIVE ByteSum(_)
ByteSum(bytes) == IF bytes = << >> THEN 0 ELSE Head(bytes) + ByteSum(Tail(bytes))

\* C31: compute<sum8>, compute<sum16> and compute<sum32> return the sum of the
\* input bytes, each taken as an unsigned value, modulo 2^8, 2^16 and 2^32
\* (Word keeps the low bytes of the sum: the sum modulo 2^(8 * n)).
C31_SumOfBytes ==
    computed # << >> =>
        computed[1] = Word(ByteSum(input), PolicySize(sum_policy))

\* C31 witness: sum16 computed over five bytes of value 1, one word and one more
\* byte, gave 0x0102: the word's low two bytes as a number plus the last byte.
C31_Witness ==
    /\ sum_policy = "sum16"
    /\ input = <<1, 1, 1, 1, 1>>
    /\ computed = <<<<1, 2>>>>

\* the calls on the scheduler that return a status_code
ApiOps == {"register_task", "pause_task", "resume_task", "abort_task"}

C33_ReentrantCallRefused ==
    [][ (cursor > 0 /\ cursor' = cursor /\ last' # last) =>
            /\ last'.ret = "reentrancy_conflict"
            /\ tasks' = tasks
      ]_vars

\* C33 witness: abort_task called from a hook of a running update() returned
\* ok and set the aborted flag of a record the loop had not reached yet.
C33_Witness ==
    /\ cursor > 1
    /\ cursor <= Len(tasks)
    /\ last.op = "abort_task"
    /\ last.ret = "ok"
    /\ is_aborted(tasks[cursor].state)
    /\ hooks[tasks[cursor].uid] = << >>

\* C34: every mutator call changes the flags as documented: set_paused sets
\* paused and idle and clears running and resumed; set_resumed sets resumed
\* and running and clears paused and idle; set_idle sets idle and clears
\* running; set_running sets running and clears idle; set_started and
\* set_aborted add their own flag and nothing else.
C34_MutatorsAsDocumented ==
    [][ chain' # chain =>
          LET m == chain'[Len(chain')]
              s == flag_state
              t == flag_state'
          IN  /\ m = "set_paused"  => t = (s \cup {"paused", "idle"}) \ {"running", "resumed"}
              /\ m = "set_resumed" => t = (s \cup {"resumed", "running"}) \ {"paused", "idle"}
              /\ m = "set_idle"    => t = (s \cup {"idle"}) \ {"running"}
              /\ m = "set_running" => t = (s \cup {"running"}) \ {"idle"}
              /\ m = "set_started" => t = s \cup {"started"}
              /\ m = "set_aborted" => t = s \cup {"aborted"}
      ]_vars

\* C34 witness: set_paused was called on the state a record is registered
\* with (running only); the state is paused and still running, not idle.
C34_Witness ==
    /\ chain = <<"set_paused">>
    /\ flag_state = {"running", "paused"}

\* the positions of the records whose last hook is on_complete: at the end of
\* the loop, the records that terminated in this tick
Terminated == {k \in 1..Len(tasks) :
                  LET log == hooks[tasks[k].uid]
                  IN  log # << >> /\ log[Len(log)].h = "on_complete"}

\* the task list without the records at these positions, order kept
Without(gone) ==
    LET kept == (1..Len(tasks)) \ gone
        Nth(j) == CHOOSE k \in kept : Cardinality({i \in kept : i <= k}) = j
    IN  [j \in 1..Cardinality(kept) |-> tasks[Nth(j)]]

\* C35: one update visits the records one by one in insertion order, each
\* once (the k-th turn of the loop calls hooks on the k-th record and on no
\* other, and the loop ends after the last record), and its compaction
\* removes exactly the records that terminated in this tick and keeps the
\* others, unchanged and in their order.
C35_VisitInOrderReapTerminated ==
    [][ /\ (cursor >= 1 /\ cursor' = cursor + 1) =>
              /\ cursor <= Len(tasks)
              /\ \A u \in RegisteredUids :
                    NewHooks(u) # << >> <=> u = tasks[cursor].uid
        /\ IsUpdateStep =>
              /\ cursor = Len(tasks) + 1
              /\ tasks' = Without(Terminated)
      ]_vars

\* C35 witness: an update is over whose compaction kept a record that had
\* terminated in it (its result is delivered) and removed one that had not.
C35_Witness ==
    /\ ticks = 1
    /\ cursor = 0
    /\ \E u \in RegisteredUids : Live(u) /\ results[u] # << >>
    /\ \E u \in RegisteredUids : ~Live(u) /\ hooks[u] # << >> /\ results[u] = << >>

\* C37: in every reachable state every task record has exactly one of the
\* idle and running flags, never both paused and resumed, and a step never
\* clears the started flag of a record that stays in the list.
C37_FlagsConsistent ==
    /\ [](\A k \in 1..Len(tasks) :
             LET s == tasks[k].state
             IN  /\ ("idle" \in s) # ("running" \in s)
                 /\ ~("paused" \in s /\ "resumed" \in s))
    /\ [][\A u \in RegisteredUids :
             ( /\ Live(u) /\ LiveNext(u)
               /\ RecNext(u).inst = Rec(u).inst
               /\ "started" \in Rec(u).state )
             => "started" \in RecNext(u).state
         ]_vars

\* C37 witness: after an update, a record that abort_task has marked stands
\* next to one with the flags it was registered with.
C37_Witness ==
    /\ ticks >= 1
    /\ \E j, k \in 1..Len(tasks) :
          /\ tasks[j].state = {"running", "aborted"}
          /\ tasks[k].state = {"running"}

\* a live record of this task is aborted, or the task is finished
Due(u) == Live(u) /\ (is_aborted(Rec(u).state) \/ finished[u])
DueNext(u) == LiveNext(u) /\ (is_aborted(RecNext(u).state) \/ finished'[u])

\* C38: under repeated update() calls, a record that is aborted, or whose
\* task is finished, is terminated by the very next update, dormant or not:
\* it stays so until an update comes, an update does come, and when that
\* update is over on_complete(...) is the last hook called on the task, its
\* result is delivered and no record of it is left.
C38_TerminatedByNextUpdate ==
    /\ [][\A u \in RegisteredUids :
             /\ (Due(u) /\ ~IsUpdateStep) => DueNext(u)
             /\ (Due(u) /\ IsUpdateStep) =>
                   /\ ~LiveNext(u)
                   /\ results'[u] # results[u]
                   /\ hooks'[u][Len(hooks'[u])].h = "on_complete"
         ]_vars
    /\ \A t \in 0..(MaxApiTicks - 1) : (ticks = t) ~> (ticks = t + 1)

\* C38 witness: an update is over in which an aborted task has got
\* on_complete(true) and its result, and its record is still in the list.
C38_Witness ==
    /\ ticks >= 1
    /\ \E u \in RegisteredUids :
          /\ Live(u)
          /\ is_aborted(Rec(u).state)
          /\ results[u] # << >>
          /\ hooks[u][Len(hooks[u])] = Hook("on_complete", TRUE)

\* C39: once the record of a task has been reaped, register_task with its
\* uid and a non-null channel returns ok and starts a fresh lifecycle: the
\* new record is idle only, the slot holds a new instance (the previous one
\* is destroyed first), and the next update calls on_start on it first.
C39_ReRegisterStartsFresh ==
    [][\A u \in RegisteredUids :
        /\ ( /\ last'.op = "register_task" /\ last'.uid = u
             /\ last'.origin # NullChannel
             /\ ~Live(u)
             /\ slots[u].constructed )
           => /\ last'.ret = "ok"
              /\ LiveNext(u)
              /\ RecNext(u).state = {"idle"}
              /\ slots'[u].constructed
              /\ slots'[u].inst = slots[u].inst + 1
              /\ RecNext(u).inst = slots'[u].inst
        /\ ( /\ IsUpdateStep
             /\ Live(u)
             /\ Rec(u).inst > 1
             /\ hooks[u] = << >> )
           => /\ NewHooks(u) # << >>
              /\ NewHooks(u)[1] = Hook("on_start", FALSE)
      ]_vars

\* C39 witness: the first task of a type was reaped by an update and
\* register_task has returned ok for the same uid again; the new record
\* holds the second instance and is running, not idle.
C39_Witness ==
    /\ ticks = 1
    /\ last.op = "register_task"
    /\ last.ret = "ok"
    /\ Live(last.uid)
    /\ Rec(last.uid).inst = 2
    /\ Rec(last.uid).state = {"running"}

\* C40: in every reachable state, inside update() or between updates, the
\* task list holds at most as many records as the task manager has task
\* types, and every bit update() has set in _garbage (a bitset with one bit
\* per task type) has an index below that number.
C40_RecordsWithinBitset ==
    /\ Len(tasks) <= Len(TaskTypes)
    /\ \A i \in marked : i >= 0 /\ i < Len(TaskTypes)

\* C40 witness: update() has marked the last bit of _garbage: every task
\* type has a live record and the record at the last position terminated.
C40_Witness ==
    /\ Len(tasks) = Len(TaskTypes)
    /\ cursor = Len(tasks) + 1
    /\ (Len(TaskTypes) - 1) \in marked

====
